---- MODULE Spec2Model ----
(***************************************************************************)
(* Event dispatch, task processing and conversation orchestration of the   *)
(* astro-engine, modelled from worker.py and app/services.                 *)
(*                                                                         *)
(* The store tables are sequences of rows; a row's id is its index.        *)
(* Fields whose name starts with h_ are history fields: they record who    *)
(* created or claimed a row and are never read by the modelled code.       *)
(***************************************************************************)
EXTENDS Integers, Sequences, FiniteSets, TLC

\* ------------------------------------------------------------------ bounds

\* Rows preloaded in event_dispatcher when the loops start.
MaxEvents == 2

\* ------------------------------------------------------------- value sets

\* A key that is absent from a JSON object (a lookup of it raises KeyError,
\* .get() of it returns None).
MISSING == "<missing>"

Dispatchers == {"d1", "d2"}
Workers == {"w1", "w2"}

\* businesses rows (created out-of-band, only read here).
Businesses ==
    { [id |-> "T1", whatsapp_phone_number_id |-> "P1",
       system_prompt |-> "be kind", business_name |-> "Cafe"],
      [id |-> "T2", whatsapp_phone_number_id |-> "P2",
       system_prompt |-> "be brief", business_name |-> "Shop"] }

\* A payload is one record shape for every kind of event; the fields a kind
\* does not carry are MISSING.
\*   pid      entry[0].changes[0].value.metadata.phone_number_id
\*   wa_id    ...value.contacts[0].wa_id
\*   name     ...value.contacts[0].profile.name
\*   mtype    ...value.messages[0].type
\*   body     ...value.messages[0].text.body
\*   data_to, data_body   payload.data.to, payload.data.text.body
\*   has_data             payload.data is present and non-empty
\*   channel, business_id payload.config.channel, payload.config.business_id
Payload(pid, wa, name, mtype, body, has_data, to, dbody, channel, bid) ==
    [pid |-> pid, wa_id |-> wa, name |-> name, mtype |-> mtype, body |-> body,
     has_data |-> has_data, data_to |-> to, data_body |-> dbody,
     channel |-> channel, business_id |-> bid]

\* A webhook payload with one contact and one message of a given type.
MessagePayload(pid, wa, name, mtype, body) ==
    Payload(pid, wa, name, mtype, body, FALSE, MISSING, MISSING, MISSING,
            MISSING)

\* A webhook payload with a text message.
InboundPayload(pid, wa, name, body) ==
    MessagePayload(pid, wa, name, "text", body)

OutboundPayload(to, dbody, channel, bid) ==
    Payload(MISSING, MISSING, MISSING, MISSING, MISSING, TRUE, to, dbody,
            channel, bid)

OtherPayload ==
    Payload(MISSING, MISSING, MISSING, MISSING, MISSING, FALSE, MISSING,
            MISSING, MISSING, MISSING)

\* ------------------------------------------------------------------ state

VARIABLES
    events,         \* event_dispatcher rows
    tasks,          \* realtime_tasks rows
    customers,      \* customers rows
    conversations,  \* conversations rows
    profiling,      \* profiling_tasks rows
    now,            \* the store's clock, which stamps created_at
    delivered,      \* messages handed to the WhatsApp transport
    dpc, dev,       \* dispatcher: position in its loop, the event it holds
    wpc, wtask,     \* worker: position in its loop, the task it holds
    svc,            \* worker: the RealtimeService instance of its run
    tags,           \* product_tags rows
    tagkey,         \* product_tags: what its UNIQUE constraint compares
    rec,            \* reconciler: the locals of _reconcile_tags_in_db
    entry,          \* a call from outside the loops: its position and input
    faults          \* requests to the store that have raised so far

vars == <<events, tasks, customers, conversations, profiling, now, delivered,
          dpc, dev, wpc, wtask, svc, tags, tagkey, rec, entry, faults>>

queueVars == <<events, tasks, customers, conversations, profiling, now,
               delivered, dpc, dev, wpc, wtask, svc, entry>>

tagVars == <<tags, tagkey, rec>>

\* No call from outside the loops is under way.
IdleEntry == [pc |-> "idle", data |-> MISSING]

\* ------------------------------------------------------- store operations

\* Ids of the rows of a table.
Ids(table) == 1..Len(table)

\* The claim primitive behind the two get_and_lock_* functions: the rows it
\* may return are the pending ones (no order among them is promised).
Claimable(table) == {i \in Ids(table) : table[i].status = "pending"}

\* The table after the claim primitive has returned row i: in the same step
\* the row is marked processing.
Locked(table, i) ==
    [table EXCEPT ![i].status = "processing", ![i].h_claims = @ + 1,
                  ![i].h_after = faults]

get_and_lock_dispatcher_event(i) == Locked(events, i)

get_and_lock_realtime_task(i) == Locked(tasks, i)

\* update({'status': s}).eq('id', i)
SetStatus(table, i, s) == [table EXCEPT ![i].status = s]

\* A new event_dispatcher row; the store sets status to pending.
EventRow(kind, payload, by) ==
    [kind |-> kind, payload |-> payload, status |-> "pending",
     h_by |-> by, h_claims |-> 0, h_after |-> 0]

\* A new realtime_tasks row; the store sets status to pending.
TaskRow(kind, payload, src) ==
    [kind |-> kind, payload |-> payload, status |-> "pending",
     last_error |-> MISSING, h_src |-> src, h_claims |-> 0, h_after |-> 0,
     h_run |-> "-", h_plan |-> "-", h_site |-> "-", h_rag |-> "-",
     h_tools |-> {}, h_text |-> MISSING]

\* .single(): exactly one row, else the request raises.
Single(rows) == Cardinality(rows) = 1

TheRow(rows) == CHOOSE r \in rows : TRUE

\* ---------------------------------------------------------- the Dispatcher

\* What the routing logic does with a claimed event: the tasks it inserts
\* into realtime_tasks and whether it marks the event failed.
RouteTwice(event_type, payload, src) ==
    IF event_type = "new_inbound_message"
    THEN [insert |-> << TaskRow("handle_user_message", payload, src),
                        TaskRow("handle_user_message", payload, src) >>,
          failed |-> FALSE]
    ELSE IF event_type = "send_outbound_message"
    THEN [insert |-> << TaskRow("execute_whatsapp_send", payload, src) >>,
          failed |-> FALSE]
    ELSE [insert |-> << >>, failed |-> TRUE]

RouteDropPayload(event_type, payload, src) ==
    IF event_type = "new_inbound_message"
    THEN [insert |-> << TaskRow("handle_user_message", payload, src) >>,
          failed |-> FALSE]
    ELSE IF event_type = "send_outbound_message"
    THEN [insert |-> << TaskRow("execute_whatsapp_send", OtherPayload, src) >>,
          failed |-> FALSE]
    ELSE [insert |-> << >>, failed |-> TRUE]

RouteDefaultLane(event_type, payload, src) ==
    IF event_type = "new_inbound_message"
    THEN [insert |-> << TaskRow("handle_user_message", payload, src) >>,
          failed |-> FALSE]
    ELSE [insert |-> << TaskRow("execute_whatsapp_send", payload, src) >>,
          failed |-> FALSE]

Route(event_type, payload, src) ==
    IF event_type = "new_inbound_message"
    THEN [insert |-> << TaskRow("handle_user_message", payload, src) >>,
          failed |-> FALSE]
    ELSE IF event_type = "send_outbound_message"
    THEN [insert |-> << TaskRow("execute_whatsapp_send", payload, src) >>,
          failed |-> FALSE]
    ELSE [insert |-> << >>, failed |-> TRUE]

\* One poll of the dispatcher: the claim returns a pending event, marked
\* processing, or nothing; with nothing the loop sleeps and polls again.
dispatch_events_poll(d) ==
    /\ dpc[d] = "poll"
    /\ \/ \E i \in Claimable(events) :
            /\ events' = get_and_lock_dispatcher_event(i)
            /\ dev' = [dev EXCEPT ![d] = i]
            /\ dpc' = [dpc EXCEPT ![d] = "route"]
       \/ /\ Claimable(events) = {}
          /\ UNCHANGED <<events, dev, dpc>>
    /\ UNCHANGED <<tasks, customers, conversations, profiling, now, delivered,
                   wpc, wtask, svc>>

\* The routing logic on the claimed event, then time.sleep(2) and the next
\* cycle.
dispatch_events_route(d) ==
    /\ dpc[d] = "route"
    /\ LET e == events[dev[d]]
           r == Route(e.kind, e.payload, dev[d])
       IN  /\ tasks' = tasks \o r.insert
           /\ events' = IF r.failed THEN SetStatus(events, dev[d], "failed")
                                    ELSE events
    /\ dpc' = [dpc EXCEPT ![d] = "poll"]
    /\ dev' = [dev EXCEPT ![d] = 0]
    /\ UNCHANGED <<customers, conversations, profiling, now, delivered,
                   wpc, wtask, svc>>

\* ----------------------------------------------- the Orchestrator's steps

\* number of turns read for the history
HistoryLimit == 8

\* number of memory facts read
MemoryLimit == 10

NoPlan == [response_text |-> MISSING, tool_calls |-> << >>]

\* A RealtimeService instance right after __init__.
NewService ==
    [user_phone |-> MISSING, user_message |-> MISSING, business |-> MISSING,
     customer |-> 0, history |-> << >>, long_term_memory |-> << >>,
     rag_knowledge |-> << >>, plan |-> NoPlan, tool_i |-> 0,
     error |-> MISSING, h_seen |-> 0]

\* BusinessContext(**res.data): every field must be present.
BusinessContextValid(b) ==
    /\ b.id # MISSING
    /\ b.system_prompt # MISSING
    /\ b.business_name # MISSING

\* The businesses rows with a routing id.
BusinessesByPhoneId(pid) ==
    {b \in Businesses : b.whatsapp_phone_number_id = pid}

\* Step 1. ok is the method's return value; the other fields are what it
\* leaves in self.
DeconstructAnyTenant(payload) ==
    LET parsed  == /\ payload.wa_id # MISSING
                   /\ payload.body # MISSING
        found   == BusinessesByPhoneId(payload.pid)
        b       == IF Single(found) THEN TheRow(found)
                   ELSE CHOOSE x \in Businesses : x.id = "T1"
    IN  [ok |-> parsed, user_phone |-> payload.wa_id,
         user_message |-> IF payload.wa_id # MISSING THEN payload.body
                          ELSE MISSING,
         business |-> IF parsed THEN b.id ELSE MISSING]

_deconstruct_and_fetch_business(payload) ==
    LET parsed  == /\ payload.wa_id # MISSING
                   /\ payload.body # MISSING
                   /\ payload.pid # MISSING
        found   == BusinessesByPhoneId(payload.pid)
        ok      == /\ parsed
                   /\ Single(found)
                   /\ BusinessContextValid(TheRow(found))
    IN  [ok |-> ok, user_phone |-> payload.wa_id,
         user_message |-> IF payload.wa_id # MISSING THEN payload.body
                          ELSE MISSING,
         business |-> IF ok THEN TheRow(found).id ELSE MISSING]

\* Python truthiness of an optional string: None and "" are falsy.
Truthy(v) == v # MISSING /\ v # ""

\* The customers rows of (business_id, phone_number).
CustomersOf(bid, phone) ==
    {i \in Ids(customers) : /\ customers[i].business_id = bid
                            /\ customers[i].phone_number = phone}

\* The lookup of step 2: .eq('business_id', ...).eq('phone_number', ...)
FindByName(bid, phone) ==
    {i \in Ids(customers) : /\ customers[i].business_id = bid
                            /\ customers[i].customer_name = phone}

FindCustomer(bid, phone) == CustomersOf(bid, phone)

\* The guard of step 2: if not self.business or not self.user_phone, the
\* method returns False before any request.
CustomerLookupGuard(business, user_phone) ==
    business # MISSING /\ Truthy(user_phone)

CustomerRow(bid, phone, name, by) ==
    [business_id |-> bid, phone_number |-> phone, customer_name |-> name,
     h_by |-> by]

Min(a, b) == IF a <= b THEN a ELSE b

Take(s, n) == SubSeq(s, 1, Min(n, Len(s)))

Reverse(s) == [i \in 1..Len(s) |-> s[Len(s) + 1 - i]]

SeqRange(s) == {s[i] : i \in 1..Len(s)}

RECURSIVE Perms(_)
Perms(S) ==
    IF S = {} THEN { << >> }
    ELSE UNION { { <<x>> \o p : p \in Perms(S \ {x}) } : x \in S }

\* The conversations rows of a customer.
Turns(c) == {i \in Ids(conversations) : conversations[i].customer_id = c}

\* order('created_at', desc=True): every order of the rows (given by id) in
\* which created_at never increases; rows with equal created_at come in any
\* order.
RECURSIVE DescOrders(_)
DescOrders(rows) ==
    IF rows = {} THEN { << >> }
    ELSE LET newest == CHOOSE i \in rows :
                         \A j \in rows : conversations[j].created_at
                                           <= conversations[i].created_at
             top == {i \in rows : conversations[i].created_at
                                    = conversations[newest].created_at}
         IN  { p \o q : p \in Perms(top), q \in DescOrders(rows \ top) }

\* .eq('customer_id', c).order('created_at', desc=True).limit(8): the
\* possible results, newest first.
HistoryQueryUnlimited(c) == DescOrders(Turns(c))

HistoryQuery(c) == { Take(q, HistoryLimit) : q \in DescOrders(Turns(c)) }

\* list(reversed(history_res.data)) if history_res.data else []
HistoryAsRead(data) == data

HistoryFromResult(data) == IF data # << >> THEN Reverse(data) ELSE << >>

\* The history as the prompt gets it: role and content of the selected rows.
HistoryView(h) ==
    [i \in 1..Len(h) |-> [role |-> conversations[h[i]].role,
                          content |-> conversations[h[i]].content]]

\* customer_memory rows (written out-of-band, only read here).
CustomerMemory ==
    << [customer_id |-> 1, fact_key |-> "drink", fact_value |-> "tea"] >>

MemoryQueryAnyCustomer(c) ==
    Take([i \in 1..Len(CustomerMemory) |->
            [fact_key |-> CustomerMemory[i].fact_key,
             fact_value |-> CustomerMemory[i].fact_value]],
         MemoryLimit)

\* .eq('customer_id', c).limit(10)
MemoryQuery(c) ==
    LET rows == SelectSeq(CustomerMemory, LAMBDA m : m.customer_id = c)
    IN  Take([i \in 1..Len(rows) |-> [fact_key |-> rows[i].fact_key,
                                       fact_value |-> rows[i].fact_value]],
             MemoryLimit)

\* A Python call binds when the arguments passed are the parameters the
\* function requires; otherwise it raises TypeError.
CallBinds(params, args) == params = args

\* def refine_user_query(raw_user_message, business_name, business_bio,
\*                       conversation_history)
refine_user_query_params ==
    {"raw_user_message", "business_name", "business_bio",
     "conversation_history"}

\* knowledge rows match_knowledge returns for a tenant
KnowledgeOf(bid) == IF bid = "T1" THEN << "open 8-5" >> ELSE << >>

\* The body of the try in part C of _gather_context: without a message
\* nothing is attempted; else refine_user_query(self.user_message) is called
\* and, if that call returns, the snippets of the tenant are read. error is
\* the exception the body raises (MISSING when none is).
KnowledgeRetrieval(user_message, bid) ==
    IF user_message = MISSING \/ user_message = ""
    THEN [tried |-> FALSE, error |-> MISSING, knowledge |-> << >>]
    ELSE IF ~CallBinds(refine_user_query_params, {"raw_user_message"})
    THEN [tried |-> TRUE,
          error |-> "refine_user_query() missing 3 required positional arguments: 'business_name', 'business_bio', and 'conversation_history'",
          knowledge |-> << >>]
    ELSE [tried |-> TRUE, error |-> MISSING, knowledge |-> KnowledgeOf(bid)]

\* self.context (history, long_term_memory, rag_knowledge) after part C, from
\* what parts A and B left in it: the handler only logs a warning.
ContextResetOnError(ctx, r) ==
    IF r.tried /\ r.error = MISSING
    THEN [ctx EXCEPT !.rag_knowledge = r.knowledge]
    ELSE [history |-> << >>, long_term_memory |-> << >>,
          rag_knowledge |-> << >>]

AfterKnowledge(ctx, r) ==
    IF r.tried /\ r.error = MISSING
    THEN [ctx EXCEPT !.rag_knowledge = r.knowledge]
    ELSE ctx

\* --------------------------------------------------- the generative gateway

ToolNames ==
    {"queue_for_profiling", "request_human_intervention",
     "lookup_product_info"}

ToolCall(name, summary) == [name |-> name, summary |-> summary]

\* What the provider may hand back for a structured request: parsed is FALSE
\* for an empty or unparsable response.
GatewayResponses ==
    { [parsed |-> FALSE, response_text |-> MISSING, tool_calls |-> << >>],
      [parsed |-> TRUE, response_text |-> "", tool_calls |-> << >>],
      [parsed |-> TRUE, response_text |-> "hello", tool_calls |-> << >>],
      [parsed |-> TRUE, response_text |-> "hold on",
       tool_calls |-> << ToolCall("lookup_product_info", MISSING),
                         ToolCall("queue_for_profiling", "likes tea"),
                         ToolCall("request_human_intervention", MISSING),
                         ToolCall("queue_for_profiling", "has a dog") >>],
      [parsed |-> TRUE, response_text |-> "done",
       tool_calls |-> << ToolCall("queue_for_profiling", "likes tea"),
                         ToolCall("refund_order", MISSING) >>] }

\* The tool names of a response.
NamesIn(r) == {r.tool_calls[i].name : i \in 1..Len(r.tool_calls)}

ActionPlanAnyTool(r) == r.response_text # MISSING

\* ActionPlan(**parsed_dict): response_text is required, every tool name
\* must be in the enum.
ActionPlanValid(r) ==
    /\ r.response_text # MISSING
    /\ \A i \in 1..Len(r.tool_calls) : r.tool_calls[i].name \in ToolNames

\* think_and_generate_json: ok is FALSE when it returns None.
think_and_generate_json(r) ==
    IF r.parsed /\ ActionPlanValid(r)
    THEN [ok |-> TRUE,
          plan |-> [response_text |-> r.response_text,
                    tool_calls |-> r.tool_calls]]
    ELSE [ok |-> FALSE, plan |-> NoPlan]

\* The functions the module gemini_service defines.
gemini_service == {"generate_text", "think_and_generate_json"}

\* What the provider may do with an unstructured request: raise (or the
\* client is not configured), answer with no text, with text that is not
\* JSON, or with a JSON object.
ProviderTexts ==
    { [kind |-> "error", final_tags |-> << >>],
      [kind |-> "empty", final_tags |-> << >>],
      [kind |-> "prose", final_tags |-> << >>],
      [kind |-> "json", final_tags |-> << >>],
      [kind |-> "json", final_tags |-> << <<"t", "e", "a">> >>] }

\* generate_text: the text, or None (MISSING) on every failure.
generate_text(resp) ==
    IF resp.kind \in {"error", "empty"} THEN MISSING ELSE resp

\* A module attribute that does not exist raises AttributeError when it is
\* looked up.
HasAttribute(module, name) == name \in module

\* _get_ai_refined_tags: raised is the exception that leaves it (MISSING
\* when it returns), tags the list it returns. The call is
\* gemini_service.think_and_generate_text(prompt), outside the try.
_get_ai_refined_tags(resp) ==
    IF ~HasAttribute(gemini_service, "think_and_generate_text")
    THEN [raised |-> "module 'app.services.gemini_service' has no attribute 'think_and_generate_text'",
          tags |-> << >>]
    ELSE LET response_str == generate_text(resp) IN
         IF response_str = MISSING THEN [raised |-> MISSING, tags |-> << >>]
         ELSE IF response_str.kind = "json"
         THEN [raised |-> MISSING, tags |-> response_str.final_tags]
         ELSE [raised |-> MISSING, tags |-> << >>]

\* ------------------------------------------------------------- the Worker

\* def send_whatsapp_message(tenant_id, message_payload)
send_whatsapp_message_params == {"tenant_id", "message_payload"}

\* all([business_id, channel, message_payload]): each must be truthy.
SendFieldsPresent(payload) ==
    /\ Truthy(payload.business_id)
    /\ Truthy(payload.channel)
    /\ payload.has_data

ExecuteSendUnchecked(payload) ==
    IF payload.channel = "whatsapp"
    THEN IF CallBinds(send_whatsapp_message_params,
                      {"business_id", "message_payload"})
         THEN [error |-> MISSING, deliver |-> TRUE]
         ELSE [error |-> "send_whatsapp_message() got an unexpected keyword argument 'business_id'",
               deliver |-> FALSE]
    ELSE [error |-> MISSING, deliver |-> FALSE]

ExecuteSendStrict(payload) ==
    IF ~SendFieldsPresent(payload)
    THEN [error |-> "Missing business_id, channel, or data payload for sending message.",
          deliver |-> FALSE]
    ELSE IF payload.channel = "whatsapp"
    THEN IF CallBinds(send_whatsapp_message_params,
                      {"business_id", "message_payload"})
         THEN [error |-> MISSING, deliver |-> TRUE]
         ELSE [error |-> "send_whatsapp_message() got an unexpected keyword argument 'business_id'",
               deliver |-> FALSE]
    ELSE [error |-> "Outbound channel not supported", deliver |-> FALSE]

\* The branch for an execute_whatsapp_send task, up to the status update:
\* error is the message of the exception raised (MISSING when none is), and
\* deliver tells whether the transport is given the message.
ExecuteSend(payload) ==
    IF ~SendFieldsPresent(payload)
    THEN [error |-> "Missing business_id, channel, or data payload for sending message.",
          deliver |-> FALSE]
    ELSE IF payload.channel = "whatsapp"
    THEN IF CallBinds(send_whatsapp_message_params,
                      {"business_id", "message_payload"})
         THEN [error |-> MISSING, deliver |-> TRUE]
         ELSE [error |-> "send_whatsapp_message() got an unexpected keyword argument 'business_id'",
               deliver |-> FALSE]
    ELSE [error |-> MISSING, deliver |-> FALSE]

\* The end of a RealtimeService.run(): how it ended is recorded on the task,
\* and the worker goes on to the status update.
EndRun(w, how, err) ==
    /\ tasks' = [tasks EXCEPT ![wtask[w]].h_run = how]
    /\ svc' = [svc EXCEPT ![w] = [NewService EXCEPT !.error = err]]
    /\ wpc' = [wpc EXCEPT ![w] = "finish"]

UnknownKindIgnored(event_type) == MISSING

\* The else branch of the dispatch: the message of the ValueError raised for
\* an event_type that is neither of the two handled (None included).
UnknownKind(event_type) ==
    "Unknown event_type in realtime_tasks: "
        \o (IF event_type = MISSING THEN "None" ELSE event_type)

\* The dispatch on the claimed task's event_type, up to the next request to
\* the store. For handle_user_message this is RealtimeService(payload) and
\* step 1 of run().
Handle(w, i) ==
    LET t == tasks[i] IN
    IF t.kind = "handle_user_message"
    THEN LET r == _deconstruct_and_fetch_business(t.payload) IN
         IF r.ok /\ CustomerLookupGuard(r.business, r.user_phone)
         THEN /\ svc' = [svc EXCEPT ![w] =
                           [NewService EXCEPT !.user_phone = r.user_phone,
                                              !.user_message = r.user_message,
                                              !.business = r.business]]
              /\ wpc' = [wpc EXCEPT ![w] = "find"]
              /\ tasks' = get_and_lock_realtime_task(i)
              /\ UNCHANGED delivered
         ELSE IF r.ok
         THEN \* step 2 returns False at its guard, without a request
              /\ svc' = [svc EXCEPT ![w] = NewService]
              /\ wpc' = [wpc EXCEPT ![w] = "finish"]
              /\ tasks' = [get_and_lock_realtime_task(i)
                              EXCEPT ![i].h_run = "AbortedCustomer",
                                     ![i].h_site = "phone"]
              /\ UNCHANGED delivered
         ELSE /\ svc' = [svc EXCEPT ![w] = NewService]
              /\ wpc' = [wpc EXCEPT ![w] = "finish"]
              /\ tasks' = [get_and_lock_realtime_task(i)
                              EXCEPT ![i].h_run = "AbortedIdentity"]
              /\ UNCHANGED delivered
    ELSE IF t.kind = "execute_whatsapp_send"
    THEN LET r == ExecuteSend(t.payload) IN
         /\ delivered' = IF r.deliver
                         THEN Append(delivered,
                                     [tenant |-> t.payload.business_id,
                                      to |-> t.payload.data_to,
                                      body |-> t.payload.data_body])
                         ELSE delivered
         /\ svc' = [svc EXCEPT ![w] = [NewService EXCEPT !.error = r.error]]
         /\ wpc' = [wpc EXCEPT ![w] = "finish"]
         /\ tasks' = get_and_lock_realtime_task(i)
    ELSE /\ svc' = [svc EXCEPT ![w] =
                      [NewService EXCEPT !.error = UnknownKind(t.kind)]]
         /\ wpc' = [wpc EXCEPT ![w] = "finish"]
         /\ tasks' = get_and_lock_realtime_task(i)
         /\ UNCHANGED delivered

PollPeek(w) ==
    /\ wpc[w] = "poll"
    /\ \/ \E i \in Ids(tasks) :
            /\ tasks[i].status \in {"pending", "processing"}
            /\ wtask' = [wtask EXCEPT ![w] = i]
            /\ Handle(w, i)
       \/ /\ Claimable(tasks) = {}
          /\ UNCHANGED <<tasks, wtask, wpc, svc, delivered>>
    /\ UNCHANGED <<events, customers, conversations, profiling, now, dpc, dev>>

\* One poll of the worker: the claim returns a pending task, marked
\* processing, which is dispatched on its event_type, or it returns nothing
\* and the loop sleeps and polls again.
process_realtime_tasks_poll(w) ==
    /\ wpc[w] = "poll"
    /\ \/ \E i \in Claimable(tasks) :
            /\ wtask' = [wtask EXCEPT ![w] = i]
            /\ Handle(w, i)
       \/ /\ Claimable(tasks) = {}
          /\ UNCHANGED <<tasks, wtask, wpc, svc, delivered>>
    /\ UNCHANGED <<events, customers, conversations, profiling, now, dpc, dev>>

\* Step 2, the lookup: an existing customer is taken (limit(1): any one of
\* the matching rows); without one the display name is read from the payload.
_fetch_or_create_customer_find(w) ==
    /\ wpc[w] = "find"
    /\ LET found == FindCustomer(svc[w].business, svc[w].user_phone) IN
       IF ~CustomerLookupGuard(svc[w].business, svc[w].user_phone)
       THEN /\ tasks' = [tasks EXCEPT ![wtask[w]].h_run = "AbortedCustomer",
                                       ![wtask[w]].h_site = "phone"]
            /\ svc' = [svc EXCEPT ![w] = NewService]
            /\ wpc' = [wpc EXCEPT ![w] = "finish"]
       ELSE IF found # {}
       THEN /\ \E c \in found : svc' = [svc EXCEPT ![w].customer = c]
            /\ wpc' = [wpc EXCEPT ![w] = "gather"]
            /\ UNCHANGED tasks
       ELSE IF tasks[wtask[w]].payload.name # MISSING
       THEN /\ wpc' = [wpc EXCEPT ![w] = "insert"]
            /\ UNCHANGED <<tasks, svc>>
       ELSE \* the payload has no profile name: KeyError inside the try
            /\ tasks' = [tasks EXCEPT ![wtask[w]].h_run = "AbortedCustomer",
                                       ![wtask[w]].h_site = "name"]
            /\ svc' = [svc EXCEPT ![w] = NewService]
            /\ wpc' = [wpc EXCEPT ![w] = "finish"]
    /\ UNCHANGED <<events, customers, conversations, profiling, now, delivered,
                   dpc, dev, wtask>>

\* Step 2, the insert of the new customer.
_fetch_or_create_customer_insert(w) ==
    /\ wpc[w] = "insert"
    /\ customers' = Append(customers,
                           CustomerRow(svc[w].business, svc[w].user_phone,
                                       tasks[wtask[w]].payload.name, wtask[w]))
    /\ wpc' = [wpc EXCEPT ![w] = "refetch"]
    /\ UNCHANGED <<events, tasks, conversations, profiling, now, delivered,
                   dpc, dev, wtask, svc>>

\* Step 2, the re-read with .single(): it raises unless exactly one row
\* matches, and the method then returns False.
_fetch_or_create_customer_refetch(w) ==
    /\ wpc[w] = "refetch"
    /\ LET found == CustomersOf(svc[w].business, svc[w].user_phone) IN
       IF Single(found)
       THEN /\ svc' = [svc EXCEPT ![w].customer = TheRow(found)]
            /\ wpc' = [wpc EXCEPT ![w] = "gather"]
            /\ UNCHANGED tasks
       ELSE EndRun(w, "AbortedCustomer", MISSING)
    /\ UNCHANGED <<events, customers, conversations, profiling, now, delivered,
                   dpc, dev, wtask>>

\* run() after step 4: without a plan the run ends, with one it goes on to
\* execute it.
ApologiseWithoutPlan(r) ==
    [proceed |-> TRUE,
     plan |-> IF r.ok THEN r.plan
              ELSE [response_text |-> "sorry", tool_calls |-> << >>]]

ExecuteWithoutPlan(r) == [proceed |-> TRUE, plan |-> r.plan]

PlanOrAbort(r) == [proceed |-> r.ok, plan |-> r.plan]

\* Steps 3 and 4: history, memory facts and knowledge are read, then the
\* structured request is made; None ends the run.
_gather_context(w) ==
    /\ wpc[w] = "gather"
    /\ \E data \in HistoryQuery(svc[w].customer), resp \in GatewayResponses :
         LET k == KnowledgeRetrieval(svc[w].user_message, svc[w].business)
             ctx == AfterKnowledge(
                        [history |-> HistoryFromResult(data),
                         long_term_memory |-> MemoryQuery(svc[w].customer),
                         rag_knowledge |-> svc[w].rag_knowledge], k)
             rag == IF ~k.tried THEN "skipped"
                    ELSE IF k.error # MISSING THEN "failed" ELSE "read"
             r == think_and_generate_json(resp)
             a == PlanOrAbort(r)
             got == IF r.ok THEN "plan" ELSE "null"
         IN
         IF a.proceed
         THEN /\ svc' = [svc EXCEPT
                   ![w].history = ctx.history,
                   ![w].long_term_memory = ctx.long_term_memory,
                   ![w].rag_knowledge = ctx.rag_knowledge,
                   ![w].plan = a.plan,
                   ![w].h_seen = Len(conversations)]
              /\ wpc' = [wpc EXCEPT ![w] = "exec_send"]
              /\ tasks' = [tasks EXCEPT ![wtask[w]].h_plan = got,
                                        ![wtask[w]].h_rag = rag,
                                        ![wtask[w]].h_tools = NamesIn(resp),
                                        ![wtask[w]].h_text = a.plan.response_text]
         ELSE /\ tasks' = [tasks EXCEPT ![wtask[w]].h_run = "AbortedPlan",
                                        ![wtask[w]].h_plan = got,
                                        ![wtask[w]].h_rag = rag,
                                        ![wtask[w]].h_tools = NamesIn(resp)]
              /\ svc' = [svc EXCEPT ![w] = NewService]
              /\ wpc' = [wpc EXCEPT ![w] = "finish"]
    /\ UNCHANGED <<events, customers, conversations, profiling, now, delivered,
                   dpc, dev, wtask>>

\* Step 5, the reply: a send_outbound_message event when response_text is
\* not empty.
OutboundEvent(w) ==
    EventRow("send_outbound_message",
             OutboundPayload(svc[w].user_phone, svc[w].plan.response_text,
                             "whatsapp", svc[w].business),
             wtask[w])

AfterSend(w) ==
    IF Len(svc[w].plan.tool_calls) = 0 THEN "exec_save" ELSE "exec_tools"

SendEvenIfEmpty(w) ==
    /\ wpc[w] = "exec_send"
    /\ events' = Append(events, OutboundEvent(w))
    /\ svc' = [svc EXCEPT ![w].tool_i = 1]
    /\ wpc' = [wpc EXCEPT ![w] = AfterSend(w)]
    /\ UNCHANGED <<tasks, customers, conversations, profiling, now, delivered,
                   dpc, dev, wtask>>

SendUnlessSentBefore(w) ==
    /\ wpc[w] = "exec_send"
    /\ events' = IF /\ svc[w].plan.response_text # ""
                    /\ \A e \in Ids(events) :
                         events[e].payload # OutboundEvent(w).payload
                 THEN Append(events, OutboundEvent(w))
                 ELSE events
    /\ svc' = [svc EXCEPT ![w].tool_i = 1]
    /\ wpc' = [wpc EXCEPT ![w] = AfterSend(w)]
    /\ UNCHANGED <<tasks, customers, conversations, profiling, now, delivered,
                   dpc, dev, wtask>>

_execute_action_plan_send(w) ==
    /\ wpc[w] = "exec_send"
    /\ events' = IF svc[w].plan.response_text # ""
                 THEN Append(events, OutboundEvent(w))
                 ELSE events
    /\ svc' = [svc EXCEPT ![w].tool_i = 1]
    /\ wpc' = [wpc EXCEPT ![w] = AfterSend(w)]
    /\ UNCHANGED <<tasks, customers, conversations, profiling, now, delivered,
                   dpc, dev, wtask>>

ProfilingRow(w, call) ==
    [kind |-> "run_profiling_analysis", customer_id |-> svc[w].customer,
     business_id |-> svc[w].business, summary |-> call.summary,
     full_conversation |->
        Append(HistoryView(svc[w].history),
               [role |-> "user", content |-> svc[w].user_message]),
     status |-> "pending", h_by |-> wtask[w]]

ProfileEveryCall(w) ==
    /\ wpc[w] = "exec_tools"
    /\ LET call == svc[w].plan.tool_calls[svc[w].tool_i] IN
       profiling' = IF svc[w].customer # 0
                    THEN Append(profiling, ProfilingRow(w, call))
                    ELSE profiling
    /\ svc' = [svc EXCEPT ![w].tool_i = @ + 1]
    /\ wpc' = [wpc EXCEPT ![w] =
                 IF svc[w].tool_i = Len(svc[w].plan.tool_calls)
                 THEN "exec_save" ELSE "exec_tools"]
    /\ UNCHANGED <<events, tasks, customers, conversations, now, delivered,
                   dpc, dev, wtask>>

ProfileIntoTaskLane(w) ==
    /\ wpc[w] = "exec_tools"
    /\ LET call == svc[w].plan.tool_calls[svc[w].tool_i] IN
       tasks' = IF call.name = "queue_for_profiling" /\ svc[w].customer # 0
                THEN Append(tasks, TaskRow("run_profiling_analysis",
                                           OtherPayload, 0))
                ELSE tasks
    /\ svc' = [svc EXCEPT ![w].tool_i = @ + 1]
    /\ wpc' = [wpc EXCEPT ![w] =
                 IF svc[w].tool_i = Len(svc[w].plan.tool_calls)
                 THEN "exec_save" ELSE "exec_tools"]
    /\ UNCHANGED <<events, profiling, customers, conversations, now,
                   delivered, dpc, dev, wtask>>

\* Step 5, one turn of the loop over tool_calls.
_execute_action_plan_tool(w) ==
    /\ wpc[w] = "exec_tools"
    /\ LET call == svc[w].plan.tool_calls[svc[w].tool_i] IN
       profiling' = IF call.name = "queue_for_profiling" /\ svc[w].customer # 0
                    THEN Append(profiling, ProfilingRow(w, call))
                    ELSE profiling
    /\ svc' = [svc EXCEPT ![w].tool_i = @ + 1]
    /\ wpc' = [wpc EXCEPT ![w] =
                 IF svc[w].tool_i = Len(svc[w].plan.tool_calls)
                 THEN "exec_save" ELSE "exec_tools"]
    /\ UNCHANGED <<events, tasks, customers, conversations, now, delivered,
                   dpc, dev, wtask>>

\* The two conversations rows of one insert; the store stamps both with the
\* time of the insert.
SaveRows(c, message, reply, at, by) ==
    << [customer_id |-> c, role |-> "user", content |-> message,
        created_at |-> at, h_by |-> by],
       [customer_id |-> c, role |-> "assistant", content |-> reply,
        created_at |-> at, h_by |-> by] >>

TurnRows(w) ==
    SaveRows(svc[w].customer, svc[w].user_message,
             svc[w].plan.response_text, now, wtask[w])

SaveEmptyReply(w) ==
    /\ wpc[w] = "exec_save"
    /\ IF svc[w].customer # 0
       THEN /\ conversations' = conversations \o TurnRows(w)
            /\ now' = now + 1
       ELSE UNCHANGED <<conversations, now>>
    /\ EndRun(w, "Executed", MISSING)
    /\ UNCHANGED <<events, customers, profiling, delivered, dpc, dev, wtask>>

\* Step 5, the transcript; run() then returns.
_execute_action_plan_save(w) ==
    /\ wpc[w] = "exec_save"
    /\ IF svc[w].customer # 0 /\ svc[w].plan.response_text # ""
       THEN /\ conversations' = conversations \o TurnRows(w)
            /\ now' = now + 1
       ELSE UNCHANGED <<conversations, now>>
    /\ EndRun(w, "Executed", MISSING)
    /\ UNCHANGED <<events, customers, profiling, delivered, dpc, dev, wtask>>

FinishWithoutMessage(w) ==
    /\ wpc[w] = "finish"
    /\ tasks' = IF svc[w].error = MISSING
                THEN SetStatus(tasks, wtask[w], "complete")
                ELSE SetStatus(tasks, wtask[w], "failed")
    /\ svc' = [svc EXCEPT ![w] = NewService]
    /\ wpc' = [wpc EXCEPT ![w] = "poll"]
    /\ wtask' = [wtask EXCEPT ![w] = 0]
    /\ UNCHANGED <<events, customers, conversations, profiling, now, delivered,
                   dpc, dev>>

FinishRequeuesFailed(w) ==
    /\ wpc[w] = "finish"
    /\ tasks' = IF svc[w].error = MISSING
                THEN SetStatus(tasks, wtask[w], "complete")
                ELSE [tasks EXCEPT ![wtask[w]].status =
                                      IF tasks[wtask[w]].last_error = MISSING
                                      THEN "pending" ELSE "failed",
                                   ![wtask[w]].last_error = svc[w].error]
    /\ svc' = [svc EXCEPT ![w] = NewService]
    /\ wpc' = [wpc EXCEPT ![w] = "poll"]
    /\ wtask' = [wtask EXCEPT ![w] = 0]
    /\ UNCHANGED <<events, customers, conversations, profiling, now, delivered,
                   dpc, dev>>

\* The status update that ends the iteration: complete, or failed with the
\* message of the exception; then time.sleep(2) and the next cycle.
process_realtime_tasks_finish(w) ==
    /\ wpc[w] = "finish"
    /\ tasks' = IF svc[w].error = MISSING
                THEN SetStatus(tasks, wtask[w], "complete")
                ELSE [tasks EXCEPT ![wtask[w]].status = "failed",
                                   ![wtask[w]].last_error = svc[w].error]
    /\ svc' = [svc EXCEPT ![w] = NewService]
    /\ wpc' = [wpc EXCEPT ![w] = "poll"]
    /\ wtask' = [wtask EXCEPT ![w] = 0]
    /\ UNCHANGED <<events, customers, conversations, profiling, now, delivered,
                   dpc, dev>>

\* ------------------------------------------------- requests that raise

MaxFaults == 2

\* str(e) of the exception a failed request to the store raises.
StoreError == "store error"

\* The requests to the store a run is about to make at its position.
RaiseSites(w) ==
    CASE wpc[w] = "find"    -> {"find"}
      [] wpc[w] = "insert"  -> {"insert"}
      [] wpc[w] = "refetch" -> {"refetch"}
      [] wpc[w] = "gather"  -> {"history", "memory"}
      [] wpc[w] = "exec_send" ->
            IF svc[w].plan.response_text # "" THEN {"send"} ELSE {}
      [] wpc[w] = "exec_tools" ->
            IF /\ svc[w].plan.tool_calls[svc[w].tool_i].name
                    = "queue_for_profiling"
               /\ svc[w].customer # 0
            THEN {"profiling"} ELSE {}
      [] wpc[w] = "exec_save" ->
            IF svc[w].customer # 0 /\ svc[w].plan.response_text # ""
            THEN {"save"} ELSE {}
      [] OTHER -> {}

CaughtOnlyLookups(site) == site \in {"business", "find"}

\* The requests made inside a try block of the step's own method, which
\* logs the exception and returns False.
CaughtInStep(site) == site \in {"business", "find", "insert", "refetch"}

RunErrorRollsBack(w) ==
    /\ faults < MaxFaults
    /\ \E site \in RaiseSites(w) :
         /\ tasks' = [tasks EXCEPT
                        ![wtask[w]].h_run = IF CaughtInStep(site)
                                            THEN "AbortedCustomer"
                                            ELSE "Raised",
                        ![wtask[w]].h_site = site]
         /\ svc' = [svc EXCEPT ![w] =
                      [NewService EXCEPT !.error =
                         IF CaughtInStep(site) THEN MISSING
                         ELSE StoreError]]
    /\ events' = SelectSeq(events, LAMBDA e : e.h_by # wtask[w])
    /\ wpc' = [wpc EXCEPT ![w] = "finish"]
    /\ faults' = faults + 1
    /\ UNCHANGED <<customers, conversations, profiling, now, delivered,
                   dpc, dev, wtask, tagVars, entry>>

\* A request of the run raises: a step that catches it ends the run, else
\* the exception leaves run() (which logs and re-raises it).
RealtimeService_run_error(w) ==
    /\ faults < MaxFaults
    /\ \E site \in RaiseSites(w) :
         /\ tasks' = [tasks EXCEPT
                        ![wtask[w]].h_run = IF CaughtInStep(site)
                                            THEN "AbortedCustomer"
                                            ELSE "Raised",
                        ![wtask[w]].h_site = site]
         /\ svc' = [svc EXCEPT ![w] =
                      [NewService EXCEPT !.error =
                         IF CaughtInStep(site) THEN MISSING
                         ELSE StoreError]]
    /\ wpc' = [wpc EXCEPT ![w] = "finish"]
    /\ faults' = faults + 1
    /\ UNCHANGED <<events, customers, conversations, profiling, now, delivered,
                   dpc, dev, wtask, tagVars, entry>>

\* The claim returns a handle_user_message task and the read of businesses
\* in step 1 raises.
_deconstruct_and_fetch_business_error(w) ==
    /\ faults < MaxFaults
    /\ wpc[w] = "poll"
    /\ \E i \in Claimable(tasks) :
         /\ tasks[i].kind = "handle_user_message"
         /\ wtask' = [wtask EXCEPT ![w] = i]
         /\ tasks' = [get_and_lock_realtime_task(i) EXCEPT
                        ![i].h_run = IF CaughtInStep("business")
                                     THEN "AbortedIdentity" ELSE "Raised",
                        ![i].h_site = "business"]
         /\ svc' = [svc EXCEPT ![w] =
                      [NewService EXCEPT !.error =
                         IF CaughtInStep("business") THEN MISSING
                         ELSE StoreError]]
    /\ wpc' = [wpc EXCEPT ![w] = "finish"]
    /\ faults' = faults + 1
    /\ UNCHANGED <<events, customers, conversations, profiling, now, delivered,
                   dpc, dev, tagVars, entry>>

\* Where a loop is after an exception reached its top-level handler: the
\* handler logs, then time.sleep(2) and the next cycle.
LoopDiesOnError == "stopped"

LoopAfterError == "poll"

\* The claim of the dispatcher raises.
dispatch_events_poll_error(d) ==
    /\ faults < MaxFaults
    /\ dpc[d] = "poll"
    /\ dpc' = [dpc EXCEPT ![d] = LoopAfterError]
    /\ faults' = faults + 1
    /\ UNCHANGED <<events, tasks, customers, conversations, profiling, now,
                   delivered, dev, wpc, wtask, svc, tagVars, entry>>

\* The insert of the task, or the update that marks the event failed, raises:
\* the event keeps the status the claim gave it.
dispatch_events_route_error(d) ==
    /\ faults < MaxFaults
    /\ dpc[d] = "route"
    /\ dpc' = [dpc EXCEPT ![d] = LoopAfterError]
    /\ dev' = [dev EXCEPT ![d] = 0]
    /\ faults' = faults + 1
    /\ UNCHANGED <<events, tasks, customers, conversations, profiling, now,
                   delivered, wpc, wtask, svc, tagVars, entry>>

\* The claim of the worker raises.
process_realtime_tasks_poll_error(w) ==
    /\ faults < MaxFaults
    /\ wpc[w] = "poll"
    /\ wpc' = [wpc EXCEPT ![w] = LoopAfterError]
    /\ faults' = faults + 1
    /\ UNCHANGED <<events, tasks, customers, conversations, profiling, now,
                   delivered, dpc, dev, wtask, svc, tagVars, entry>>

\* The status update of the worker raises. The update to complete is inside
\* the inner try, whose handler then writes failed with the exception's
\* message; an update that raises inside that handler reaches the top-level
\* handler and the task keeps the status the claim gave it.
process_realtime_tasks_finish_error(w) ==
    /\ wpc[w] = "finish"
    /\ \/ /\ svc[w].error = MISSING
          /\ faults < MaxFaults
          /\ tasks' = [tasks EXCEPT ![wtask[w]].status = "failed",
                                    ![wtask[w]].last_error = StoreError]
          /\ faults' = faults + 1
       \/ /\ svc[w].error = MISSING
          /\ faults + 1 < MaxFaults
          /\ tasks' = tasks
          /\ faults' = faults + 2
       \/ /\ svc[w].error # MISSING
          /\ faults < MaxFaults
          /\ tasks' = tasks
          /\ faults' = faults + 1
    /\ svc' = [svc EXCEPT ![w] = NewService]
    /\ wpc' = [wpc EXCEPT ![w] = LoopAfterError]
    /\ wtask' = [wtask EXCEPT ![w] = 0]
    /\ UNCHANGED <<events, customers, conversations, profiling, now, delivered,
                   dpc, dev, tagVars, entry>>

\* ------------------------------------------------------------ the tags

Reconcilers == {"r1", "r2"}

\* Tag names are strings of letters.
Tea == <<"T", "e", "a">>
tea == <<"t", "e", "a">>
bun == <<"b", "u", "n">>

\* str.lower(), letter by letter.
LowerChar(c) ==
    CASE c = "T" -> "t"
      [] c = "E" -> "e"
      [] c = "A" -> "a"
      [] c = "B" -> "b"
      [] c = "U" -> "u"
      [] c = "N" -> "n"
      [] OTHER   -> c

Lower(name) == [k \in DOMAIN name |-> LowerChar(name[k])]

\* The embedding of a text: a vector that stands for the text itself.
get_embedding(text) == <<"vec">> \o text

\* The column sets the store's UNIQUE constraint on product_tags may compare:
\* which owner column, and whether names are compared up to letter case.
TagKeys == [column : {"tenant_id", "business_id"}, fold : BOOLEAN]

TagKeyOf(row) ==
    [owner |-> row[tagkey.column],
     name  |-> IF tagkey.fold THEN Lower(row.tag_name) ELSE row.tag_name]

\* insert into product_tags: refused when a row with the same key exists
\* (a NULL owner equals nothing).
TagConflict(row) ==
    /\ row[tagkey.column] # MISSING
    /\ \E i \in Ids(tags) : TagKeyOf(tags[i]) = TagKeyOf(row)

TagsOfBusiness(tenant_id) ==
    {i \in Ids(tags) : tags[i].business_id = tenant_id}

\* The rows .select('id, tag_name').eq('tenant_id', tenant_id) returns.
TagsOfTenant(tenant_id) == {i \in Ids(tags) : tags[i].tenant_id = tenant_id}

\* existing_tags_map = {tag['tag_name']: tag['id'] for tag in data}: the
\* select has no order, and of the rows with one name the comprehension
\* keeps the one returned last, so each name maps to any of its rows.
ExistingTagsMap(tenant_id) ==
    LET rows == TagsOfTenant(tenant_id) IN
    { m \in [{tags[i].tag_name : i \in rows} -> rows] :
        \A n \in DOMAIN m : tags[m[n]].tag_name = n }

\* The lists of refined names the model hands to the Reconciler.
RefinedInputs == { <<Tea>>, <<tea, bun>>, <<Tea, tea>> }

TagTenants == {"T1", "T2"}

IdleRec ==
    [pc |-> "idle", tenant_id |-> MISSING, refined_names |-> << >>, i |-> 0,
     existing_tags_map |-> << >>, final_tag_ids |-> {},
     h_created |-> 0, h_again |-> FALSE, h_runs |-> 0, h_fetched |-> 0,
     h_resp |-> "-", h_refine |-> "-", h_failed |-> {}]

\* Reconciler runs started so far, all Reconcilers together.
RunsStarted == rec["r1"].h_runs + rec["r2"].h_runs

MaxRuns == 2

\* _reconcile_tags_in_db, up to the loop: the single read of the tenant's tags.
_reconcile_tags_in_db_fetch(r) ==
    /\ rec[r].pc = "idle"
    /\ RunsStarted < MaxRuns
    /\ \E tenant_id \in TagTenants, refined_names \in RefinedInputs :
       \E existing_tags_map \in ExistingTagsMap(tenant_id) :
         rec' = [rec EXCEPT ![r] =
                   [pc |-> "loop", tenant_id |-> tenant_id,
                    refined_names |-> refined_names, i |-> 1,
                    existing_tags_map |-> existing_tags_map,
                    final_tag_ids |-> {}, h_created |-> 0,
                    h_again |-> /\ rec[r].h_runs > 0
                                /\ rec[r].tenant_id = tenant_id
                                /\ rec[r].refined_names = refined_names,
                    h_runs |-> rec[r].h_runs + 1,
                    h_fetched |-> Len(tags),
                    h_resp |-> rec[r].h_resp, h_refine |-> rec[r].h_refine,
                    h_failed |-> {}]]
    /\ UNCHANGED <<tags, tagkey>>

NewTagData(tenant_id, name_lower) ==
    [tenant_id |-> tenant_id, business_id |-> MISSING,
     tag_name |-> name_lower, embedding |-> get_embedding(name_lower)]

ReconcileRenamesMatched(r) ==
    /\ rec[r].pc = "loop"
    /\ LET me         == rec[r]
           name_lower == Lower(me.refined_names[me.i])
           known      == name_lower \in DOMAIN me.existing_tags_map
           row        == NewTagData(me.tenant_id, name_lower)
           created    == ~known /\ ~TagConflict(row)
           new_tag_id == Len(tags) + 1
           last       == me.i = Len(me.refined_names)
       IN
       /\ tags' = IF created THEN Append(tags, row)
                  ELSE IF known
                  THEN [tags EXCEPT ![me.existing_tags_map[name_lower]].tag_name
                                       = me.refined_names[me.i]]
                  ELSE tags
       /\ rec' = [rec EXCEPT
            ![r].final_tag_ids =
                IF known THEN @ \cup {me.existing_tags_map[name_lower]}
                ELSE IF created THEN @ \cup {new_tag_id} ELSE @,
            ![r].existing_tags_map =
                IF last THEN << >>
                ELSE IF created
                THEN [n \in DOMAIN @ \cup {name_lower} |->
                        IF n = name_lower THEN new_tag_id ELSE @[n]]
                ELSE @,
            ![r].h_created = IF created THEN @ + 1 ELSE @,
            ![r].h_failed = IF ~known /\ ~created THEN @ \cup {name_lower}
                            ELSE @,
            ![r].i = IF last THEN 0 ELSE @ + 1,
            ![r].pc = IF last THEN "idle" ELSE "loop"]
    /\ UNCHANGED tagkey

ReconcileAdoptsOnConflict(r) ==
    /\ rec[r].pc = "loop"
    /\ LET me         == rec[r]
           name_lower == Lower(me.refined_names[me.i])
           known      == name_lower \in DOMAIN me.existing_tags_map
           row        == NewTagData(me.tenant_id, name_lower)
           created    == ~known /\ ~TagConflict(row)
           new_tag_id == Len(tags) + 1
           last       == me.i = Len(me.refined_names)
       IN
       /\ tags' = IF created THEN Append(tags, row) ELSE tags
       /\ rec' = [rec EXCEPT
            ![r].final_tag_ids =
                IF known THEN @ \cup {me.existing_tags_map[name_lower]}
                ELSE IF created THEN @ \cup {new_tag_id}
                ELSE @ \cup {CHOOSE i \in Ids(tags) :
                                TagKeyOf(tags[i]) = TagKeyOf(row)},
            ![r].existing_tags_map =
                IF last THEN << >>
                ELSE IF created
                THEN [n \in DOMAIN @ \cup {name_lower} |->
                        IF n = name_lower THEN new_tag_id ELSE @[n]]
                ELSE @,
            ![r].h_created = IF created THEN @ + 1 ELSE @,
            ![r].h_failed = IF ~known /\ ~created THEN @ \cup {name_lower}
                            ELSE @,
            ![r].i = IF last THEN 0 ELSE @ + 1,
            ![r].pc = IF last THEN "idle" ELSE "loop"]
    /\ UNCHANGED tagkey

ReconcileForgetsCreated(r) ==
    /\ rec[r].pc = "loop"
    /\ LET me         == rec[r]
           name_lower == Lower(me.refined_names[me.i])
           known      == name_lower \in DOMAIN me.existing_tags_map
           row        == NewTagData(me.tenant_id, name_lower)
           created    == ~known /\ ~TagConflict(row)
           new_tag_id == Len(tags) + 1
           last       == me.i = Len(me.refined_names)
       IN
       /\ tags' = IF created THEN Append(tags, row) ELSE tags
       /\ rec' = [rec EXCEPT
            ![r].final_tag_ids =
                IF known THEN @ \cup {me.existing_tags_map[name_lower]}
                ELSE IF created THEN @ \cup {new_tag_id} ELSE @,
            ![r].existing_tags_map = IF last THEN << >> ELSE @,
            ![r].h_created = IF created THEN @ + 1 ELSE @,
            ![r].h_failed = IF ~known /\ ~created THEN @ \cup {name_lower}
                            ELSE @,
            ![r].i = IF last THEN 0 ELSE @ + 1,
            ![r].pc = IF last THEN "idle" ELSE "loop"]
    /\ UNCHANGED tagkey

\* One iteration of the loop over refined_names; the last one returns.
_reconcile_tags_in_db_name(r) ==
    /\ rec[r].pc = "loop"
    /\ LET me         == rec[r]
           name_lower == Lower(me.refined_names[me.i])
           known      == name_lower \in DOMAIN me.existing_tags_map
           row        == NewTagData(me.tenant_id, name_lower)
           created    == ~known /\ ~TagConflict(row)
           new_tag_id == Len(tags) + 1
           last       == me.i = Len(me.refined_names)
       IN
       /\ tags' = IF created THEN Append(tags, row) ELSE tags
       /\ rec' = [rec EXCEPT
            ![r].final_tag_ids =
                IF known THEN @ \cup {me.existing_tags_map[name_lower]}
                ELSE IF created THEN @ \cup {new_tag_id} ELSE @,
            ![r].existing_tags_map =
                IF last THEN << >>
                ELSE IF created
                THEN [n \in DOMAIN @ \cup {name_lower} |->
                        IF n = name_lower THEN new_tag_id ELSE @[n]]
                ELSE @,
            ![r].h_created = IF created THEN @ + 1 ELSE @,
            ![r].h_failed = IF ~known /\ ~created THEN @ \cup {name_lower}
                            ELSE @,
            ![r].i = IF last THEN 0 ELSE @ + 1,
            ![r].pc = IF last THEN "idle" ELSE "loop"]
    /\ UNCHANGED tagkey

\* An iteration whose creation raises, in get_embedding or in the insert:
\* the handler of the iteration logs the exception and the loop goes on.
_reconcile_tags_in_db_name_error(r) ==
    /\ rec[r].pc = "loop"
    /\ faults < MaxFaults
    /\ LET me         == rec[r]
           name_lower == Lower(me.refined_names[me.i])
           last       == me.i = Len(me.refined_names)
       IN
       /\ name_lower \notin DOMAIN me.existing_tags_map
       /\ rec' = [rec EXCEPT
            ![r].existing_tags_map = IF last THEN << >> ELSE @,
            ![r].h_failed = @ \cup {name_lower},
            ![r].i = IF last THEN 0 ELSE @ + 1,
            ![r].pc = IF last THEN "idle" ELSE "loop"]
    /\ faults' = faults + 1
    /\ UNCHANGED <<tags, tagkey>>

MaxManualTags == 1

\* POST /businesses/{business_id}/tags
create_tag(business_id, tag_name) ==
    LET tag_dict == [tenant_id |-> MISSING, business_id |-> business_id,
                     tag_name |-> tag_name, embedding |-> << >>]
    IN
    /\ Cardinality({i \in Ids(tags) : tags[i].business_id # MISSING})
         < MaxManualTags
    /\ tags' = IF TagConflict(tag_dict) THEN tags ELSE Append(tags, tag_dict)
    /\ UNCHANGED <<tagkey, rec>>

\* ------------------------------------------------------ the specification

Jane == InboundPayload("P1", "u1", "Jane", "hi")

\* The events found in event_dispatcher when the loops start.
EventInputs ==
    { [kind |-> "new_inbound_message", payload |-> Jane],
      [kind |-> "new_inbound_message",
       payload |-> InboundPayload("PX", "u1", "Jane", "hi")],
      [kind |-> "new_inbound_message",
       payload |-> InboundPayload("P1", "u1", MISSING, "hi")],
      [kind |-> "send_outbound_message",
       payload |-> OutboundPayload("u1", "hello", "whatsapp", "T1")],
      [kind |-> "send_read_receipt", payload |-> OtherPayload] }

EventQueues ==
    UNION { [1..n -> EventInputs] : n \in 1..MaxEvents }

\* No product is being tagged.
NoTagging ==
    /\ tags = << >>
    /\ tagkey = [column |-> "tenant_id", fold |-> FALSE]
    /\ rec = [r \in Reconcilers |-> IdleRec]

Init ==
    /\ \E q \in EventQueues :
         events = [i \in 1..Len(q) |-> EventRow(q[i].kind, q[i].payload, 0)]
    /\ tasks = << >>
    /\ customers = << >>
    /\ conversations = << >>
    /\ profiling = << >>
    /\ now = 1
    /\ delivered = << >>
    /\ dpc = [d \in Dispatchers |-> "poll"]
    /\ dev = [d \in Dispatchers |-> 0]
    /\ wpc = [w \in Workers |-> "poll"]
    /\ wtask = [w \in Workers |-> 0]
    /\ svc = [w \in Workers |-> NewService]
    /\ NoTagging
    /\ entry = IdleEntry
    /\ faults = 0

DispatcherStep(d) ==
    /\ \/ dispatch_events_poll(d)
       \/ dispatch_events_route(d)
    /\ UNCHANGED <<tagVars, entry, faults>>

WorkerStep(w) ==
    /\ \/ process_realtime_tasks_poll(w)
       \/ _fetch_or_create_customer_find(w)
       \/ _fetch_or_create_customer_insert(w)
       \/ _fetch_or_create_customer_refetch(w)
       \/ _gather_context(w)
       \/ _execute_action_plan_send(w)
       \/ _execute_action_plan_tool(w)
       \/ _execute_action_plan_save(w)
       \/ process_realtime_tasks_finish(w)
    /\ UNCHANGED <<tagVars, entry, faults>>

Next ==
    \/ \E d \in Dispatchers : DispatcherStep(d)
    \/ \E w \in Workers : WorkerStep(w)

Spec == Init /\ [][Next]_vars

\* The same loops with a single Task Worker, so that Orchestrator runs are
\* executed one after another.
NextSeq ==
    \/ \E d \in Dispatchers : DispatcherStep(d)
    \/ WorkerStep("w1")

SpecSeq == Init /\ [][NextSeq]_vars

\* A single Task Worker that finds one inbound task and the transcripts of
\* earlier runs in the store.
MaxPairs == 5

RECURSIVE Transcript(_, _)
Transcript(owners, at) ==
    IF owners = << >> THEN << >>
    ELSE SaveRows(Head(owners), "hi", "hello", at, 0)
            \o Transcript(Tail(owners), at + 1)

InitHist ==
    /\ events = << >>
    /\ \E p \in {Jane, InboundPayload("P1", "u3", "Ann", "hi")} :
         tasks = << TaskRow("handle_user_message", p, 0) >>
    /\ customers = << CustomerRow("T1", "u1", "Jane", 0),
                      CustomerRow("T1", "u2", "Joe", 0) >>
    /\ \E n \in 0..MaxPairs : \E owners \in [1..n -> {1, 2}] :
         /\ conversations = Transcript(owners, 1)
         /\ now = n + 1
    /\ profiling = << >>
    /\ delivered = << >>
    /\ dpc = [d \in Dispatchers |-> "poll"]
    /\ dev = [d \in Dispatchers |-> 0]
    /\ wpc = [w \in Workers |-> "poll"]
    /\ wtask = [w \in Workers |-> 0]
    /\ svc = [w \in Workers |-> NewService]
    /\ NoTagging
    /\ entry = IdleEntry
    /\ faults = 0

NextHist == WorkerStep("w1")

SpecHist == InitHist /\ [][NextHist]_vars

\* The Reconcilers and the tag-creation endpoint on an empty product_tags
\* table, while the message queues are idle.
InitTags ==
    /\ events = << >>
    /\ tasks = << >>
    /\ customers = << >>
    /\ conversations = << >>
    /\ profiling = << >>
    /\ now = 1
    /\ delivered = << >>
    /\ dpc = [d \in Dispatchers |-> "poll"]
    /\ dev = [d \in Dispatchers |-> 0]
    /\ wpc = [w \in Workers |-> "poll"]
    /\ wtask = [w \in Workers |-> 0]
    /\ svc = [w \in Workers |-> NewService]
    /\ tags = << >>
    /\ tagkey \in TagKeys
    /\ rec = [r \in Reconcilers |-> IdleRec]
    /\ entry = IdleEntry
    /\ faults = 0

NextTags ==
    \/ \E r \in Reconcilers :
         /\ \/ _reconcile_tags_in_db_fetch(r)
            \/ _reconcile_tags_in_db_name(r)
         /\ UNCHANGED <<queueVars, faults>>
    \/ \E tag_name \in {Tea, tea} :
         /\ create_tag("T1", tag_name)
         /\ UNCHANGED <<queueVars, faults>>

SpecTags == InitTags /\ [][NextTags]_vars

\* The same with creations that raise.
NextTagsF ==
    \/ NextTags
    \/ \E r \in Reconcilers :
         /\ _reconcile_tags_in_db_name_error(r)
         /\ UNCHANGED queueVars

\* product_tags when the runs start: empty, or with the two rows that two
\* earlier runs racing on the name tea have left where the store has no
\* uniqueness on (tenant_id, tag_name).
InitialTags ==
    { << >>, << NewTagData("T1", tea), NewTagData("T1", tea) >> }

InitTagsF ==
    /\ events = << >>
    /\ tasks = << >>
    /\ customers = << >>
    /\ conversations = << >>
    /\ profiling = << >>
    /\ now = 1
    /\ delivered = << >>
    /\ dpc = [d \in Dispatchers |-> "poll"]
    /\ dev = [d \in Dispatchers |-> 0]
    /\ wpc = [w \in Workers |-> "poll"]
    /\ wtask = [w \in Workers |-> 0]
    /\ svc = [w \in Workers |-> NewService]
    /\ tagkey \in TagKeys
    /\ tags \in InitialTags
    /\ \A i \in Ids(tags) :
         tags[i][tagkey.column] # MISSING =>
            \A j \in Ids(tags) : TagKeyOf(tags[j]) = TagKeyOf(tags[i]) => i = j
    /\ rec = [r \in Reconcilers |-> IdleRec]
    /\ entry = IdleEntry
    /\ faults = 0

SpecTagsF == InitTagsF /\ [][NextTagsF]_vars

\* Phase 2 of suggest_and_reconcile_tags, for whatever the provider does.
suggest_and_reconcile_tags_refine(r) ==
    /\ rec[r].pc = "idle"
    /\ \E resp \in ProviderTexts :
         LET refined == _get_ai_refined_tags(resp) IN
         rec' = [rec EXCEPT
                   ![r].h_resp = resp,
                   ![r].h_refine = IF refined.raised # MISSING THEN "raised"
                                   ELSE "returned"]
    /\ UNCHANGED <<tags, tagkey, queueVars, faults>>

NextRefine == \E r \in Reconcilers : suggest_and_reconcile_tags_refine(r)

SpecRefine == InitTags /\ [][NextRefine]_vars

\* One Dispatcher and one Task Worker, with requests of the Orchestrator
\* that raise.
NextOne ==
    \/ DispatcherStep("d1")
    \/ WorkerStep("w1")

NextF ==
    \/ NextOne
    \/ RealtimeService_run_error("w1")
    \/ _deconstruct_and_fetch_business_error("w1")

SpecF == Init /\ [][NextF]_vars

\* --------------------------------------------------- the inbound boundary

\* The bodies Meta posts to /webhooks/whatsapp: a text message of a tenant,
\* of an unknown number, an image message, a status update (no messages),
\* and a body of another object.
WebhookInputs ==
    { [object |-> "whatsapp_business_account", value |-> Jane],
      [object |-> "whatsapp_business_account",
       value |-> InboundPayload("PX", "u1", "Jane", "hi")],
      [object |-> "whatsapp_business_account",
       value |-> MessagePayload("P2", "u1", "Jane", "image", MISSING)],
      [object |-> "whatsapp_business_account",
       value |-> MessagePayload("P1", MISSING, MISSING, MISSING, MISSING)],
      [object |-> "page", value |-> Jane] }

\* The rows queue_events inserts into event_dispatcher for one body, in
\* order. An exception (no routing id, .single() without exactly one
\* business) is caught and logged: nothing is inserted.
queue_events(data) ==
    IF /\ data.object = "whatsapp_business_account"
       /\ data.value.mtype # MISSING
       /\ data.value.pid # MISSING
       /\ Single(BusinessesByPhoneId(data.value.pid))
    THEN << EventRow("send_read_receipt", OtherPayload, 0),
            EventRow("new_inbound_message", data.value, 0) >>
    ELSE << >>

\* queue_events up to its first insert: a body that is not accepted queues
\* nothing; for an accepted one the read receipt is inserted.
queue_events_receipt ==
    /\ entry.pc = "idle"
    /\ \E data \in WebhookInputs :
         LET rows == queue_events(data) IN
         /\ Len(events) + Len(rows) <= MaxEvents
         /\ IF rows = << >>
            THEN UNCHANGED <<events, entry>>
            ELSE /\ events' = Append(events, rows[1])
                 /\ entry' = [pc |-> "queue_message", data |-> data]
    /\ UNCHANGED <<tasks, customers, conversations, profiling, now,
                   delivered, dpc, dev, wpc, wtask, svc, tagVars, faults>>

\* The second insert of queue_events: the inbound message.
queue_events_message ==
    /\ entry.pc = "queue_message"
    /\ events' = Append(events, queue_events(entry.data)[2])
    /\ entry' = IdleEntry
    /\ UNCHANGED <<tasks, customers, conversations, profiling, now,
                   delivered, dpc, dev, wpc, wtask, svc, tagVars, faults>>

\* The second insert raises: the handler of queue_events logs it, and the
\* read receipt stays queued alone.
queue_events_error ==
    /\ entry.pc = "queue_message"
    /\ faults < MaxFaults
    /\ entry' = IdleEntry
    /\ faults' = faults + 1
    /\ UNCHANGED <<events, tasks, customers, conversations, profiling, now,
                   delivered, dpc, dev, wpc, wtask, svc, tagVars>>

\* POST /webhooks/whatsapp: the background task queues the events of one
\* body, with one request to the store per event.
handle_whatsapp_events ==
    \/ queue_events_receipt
    \/ queue_events_message
    \/ queue_events_error

\* The loops start on an empty queue and the webhook fills it.
InitHook ==
    /\ events = << >>
    /\ tasks = << >>
    /\ customers = << >>
    /\ conversations = << >>
    /\ profiling = << >>
    /\ now = 1
    /\ delivered = << >>
    /\ dpc = [d \in Dispatchers |-> "poll"]
    /\ dev = [d \in Dispatchers |-> 0]
    /\ wpc = [w \in Workers |-> "poll"]
    /\ wtask = [w \in Workers |-> 0]
    /\ svc = [w \in Workers |-> NewService]
    /\ NoTagging
    /\ entry = IdleEntry
    /\ faults = 0

NextHook ==
    \/ handle_whatsapp_events
    \/ NextOne

SpecHook == InitHook /\ [][NextHook]_vars

\* The four core components side by side: the webhook fills the queue, one
\* Dispatcher and one Task Worker drain it, and one process reconciles tags.
ReconcilerStep(r) ==
    /\ \/ _reconcile_tags_in_db_fetch(r)
       \/ _reconcile_tags_in_db_name(r)
    /\ UNCHANGED <<queueVars, faults>>

NextCore ==
    \/ NextHook
    \/ ReconcilerStep("r1")

SpecCore == InitHook /\ [][NextCore]_vars

\* ------------------------------------- public functions no loop calls

\* The event payloads run_profiling_from_event is given.
ProfilingInputs ==
    { Jane,
      InboundPayload("P1", "u2", "Joe", "hi"),
      InboundPayload("PX", "u1", "Jane", "hi"),
      InboundPayload("P1", "u1", MISSING, "hi") }

\* run_profiling_from_event up to the lookup of the customer: a payload
\* without one of the fields read raises ValueError, a phone id without
\* exactly one business raises in .single(); a customer that is found is
\* returned (maybe_single raises on several rows). What follows the customer
\* (the inferred tags, the interest scores) is written to other tables.
run_profiling_from_event_find ==
    /\ entry.pc = "idle"
    /\ Len(customers) < MaxEvents
    /\ \E payload \in ProfilingInputs :
         IF /\ payload.pid # MISSING
            /\ payload.wa_id # MISSING
            /\ payload.name # MISSING
            /\ payload.body # MISSING
            /\ Single(BusinessesByPhoneId(payload.pid))
            /\ CustomersOf(TheRow(BusinessesByPhoneId(payload.pid)).id,
                           payload.wa_id) = {}
         THEN entry' = [pc |-> "profile_insert", data |-> payload]
         ELSE UNCHANGED entry
    /\ UNCHANGED <<events, tasks, customers, conversations, profiling, now,
                   delivered, dpc, dev, wpc, wtask, svc, tagVars, faults>>

\* _find_or_create_customer, the insert of the new customer.
run_profiling_from_event_insert ==
    /\ entry.pc = "profile_insert"
    /\ customers' = Append(customers,
            CustomerRow(TheRow(BusinessesByPhoneId(entry.data.pid)).id,
                        entry.data.wa_id, entry.data.name, 0))
    /\ entry' = IdleEntry
    /\ UNCHANGED <<events, tasks, conversations, profiling, now,
                   delivered, dpc, dev, wpc, wtask, svc, tagVars, faults>>

run_profiling_from_event ==
    \/ run_profiling_from_event_find
    \/ run_profiling_from_event_insert

\* send_read_receipt_and_typing(tenant_id, message_id): with the credentials
\* of the tenant read, the read status is posted to the transport (DEV_MODE
\* is off unless the environment sets it); without them the function logs
\* and returns.
send_read_receipt_and_typing ==
    /\ entry.pc = "idle"
    /\ Len(delivered) < MaxEvents
    /\ \E tenant_id \in {"T1", "TX"} :
         delivered' = IF Single({b \in Businesses : b.id = tenant_id})
                      THEN Append(delivered, [tenant |-> tenant_id,
                                              to |-> MISSING, body |-> "read"])
                      ELSE delivered
    /\ UNCHANGED <<events, tasks, customers, conversations, profiling, now,
                   dpc, dev, wpc, wtask, svc, entry, tagVars, faults>>

\* The loops and the webhook, with the two functions called from outside:
\* nothing under src/ calls them, so they are in no other specification.
NextEntry ==
    \/ NextHook
    \/ run_profiling_from_event
    \/ send_read_receipt_and_typing

SpecEntry == InitHook /\ [][NextEntry]_vars

\* The same with requests of the two loops that raise as well, on a queue of
\* up to MaxLoopEvents events.
MaxLoopEvents == 1

InitL ==
    /\ \E n \in 1..MaxLoopEvents : \E q \in [1..n -> EventInputs] :
         events = [i \in 1..n |-> EventRow(q[i].kind, q[i].payload, 0)]
    /\ tasks = << >>
    /\ customers = << >>
    /\ conversations = << >>
    /\ profiling = << >>
    /\ now = 1
    /\ delivered = << >>
    /\ dpc = [d \in Dispatchers |-> "poll"]
    /\ dev = [d \in Dispatchers |-> 0]
    /\ wpc = [w \in Workers |-> "poll"]
    /\ wtask = [w \in Workers |-> 0]
    /\ svc = [w \in Workers |-> NewService]
    /\ NoTagging
    /\ entry = IdleEntry
    /\ faults = 0

NextL ==
    \/ NextF
    \/ dispatch_events_poll_error("d1")
    \/ dispatch_events_route_error("d1")
    \/ process_realtime_tasks_poll_error("w1")
    \/ process_realtime_tasks_finish_error("w1")

SpecL == InitL /\ [][NextL]_vars

\* Each loop is a thread that always goes on to its next statement.
SpecLFair ==
    /\ SpecL
    /\ WF_vars(DispatcherStep("d1"))
    /\ WF_vars(WorkerStep("w1"))

\* The Task Workers on tasks found in realtime_tasks.
TaskInputs ==
    { [kind |-> "handle_user_message", payload |-> Jane],
      [kind |-> "execute_whatsapp_send",
       payload |-> OutboundPayload("u1", "hello", "whatsapp", "T1")],
      [kind |-> "execute_whatsapp_send",
       payload |-> OutboundPayload("u1", "hello", "sms", "T1")],
      [kind |-> "execute_whatsapp_send",
       payload |-> OutboundPayload("u1", "hello", MISSING, "T1")],
      [kind |-> "execute_whatsapp_send",
       payload |-> OutboundPayload("u1", "hello", "whatsapp", MISSING)],
      [kind |-> "execute_whatsapp_send",
       payload |-> Payload(MISSING, MISSING, MISSING, MISSING, MISSING, FALSE,
                           MISSING, MISSING, "whatsapp", "T1")],
      [kind |-> "run_profiling_analysis", payload |-> OtherPayload],
      [kind |-> MISSING, payload |-> OtherPayload],
      \* no routing id, no contact, no message
      [kind |-> "handle_user_message",
       payload |-> InboundPayload(MISSING, "u1", "Jane", "hi")],
      [kind |-> "handle_user_message",
       payload |-> InboundPayload("P1", MISSING, MISSING, "hi")],
      \* an empty address, an empty channel
      [kind |-> "handle_user_message",
       payload |-> InboundPayload("P1", "", "Jane", "hi")],
      [kind |-> "execute_whatsapp_send",
       payload |-> OutboundPayload("u1", "hello", "", "T1")],
      [kind |-> "handle_user_message",
       payload |-> MessagePayload("P1", "u1", "Jane", MISSING, MISSING)],
      \* an image message, without and with a text object next to it
      [kind |-> "handle_user_message",
       payload |-> MessagePayload("P1", "u1", "Jane", "image", MISSING)],
      [kind |-> "handle_user_message",
       payload |-> MessagePayload("P1", "u1", "Jane", "image", "hi")] }

MaxTasks == 2

InitTasks ==
    /\ events = << >>
    /\ \E n \in 1..MaxTasks : \E q \in [1..n -> TaskInputs] :
         tasks = [i \in 1..n |-> TaskRow(q[i].kind, q[i].payload, 0)]
    /\ customers = << >>
    /\ conversations = << >>
    /\ profiling = << >>
    /\ now = 1
    /\ delivered = << >>
    /\ dpc = [d \in Dispatchers |-> "poll"]
    /\ dev = [d \in Dispatchers |-> 0]
    /\ wpc = [w \in Workers |-> "poll"]
    /\ wtask = [w \in Workers |-> 0]
    /\ svc = [w \in Workers |-> NewService]
    /\ NoTagging
    /\ entry = IdleEntry
    /\ faults = 0

NextTasks == \E w \in Workers : WorkerStep(w)

SpecTasks == InitTasks /\ [][NextTasks]_vars

\* ------------------------------------------------------------- properties

RoutableKinds == {"new_inbound_message", "send_outbound_message"}

\* The tasks created for event e.
TasksFrom(e) == {t \in Ids(tasks) : tasks[t].h_src = e}

\* The dispatchers and the workers that hold a row.
DispatchersHolding(e) == {d \in Dispatchers : dev[d] = e}

WorkersHolding(t) == {w \in Workers : wtask[w] = t}

\* Rows a run (given by its task) has written.
EventsBy(t) == {e \in Ids(events) : events[e].h_by = t}

TurnsBy(t) == {i \in Ids(conversations) : conversations[i].h_by = t}

ProfilingBy(t) == {i \in Ids(profiling) : profiling[i].h_by = t}

CustomersBy(t) == {i \in Ids(customers) : customers[i].h_by = t}

\* C1: no event and no task is ever returned by two claims, a returned row
\* is no longer pending (so it is not claimed again), no two loop instances
\* hold the same row, and an event has at most one task made from it.
C1_AtMostOneOwner ==
    /\ \A e \in Ids(events) :
         /\ events[e].h_claims <= 1
         /\ events[e].status = "pending" <=> events[e].h_claims = 0
         /\ Cardinality(DispatchersHolding(e)) <= 1
         /\ Cardinality(TasksFrom(e)) <= 1
    /\ \A t \in Ids(tasks) :
         /\ tasks[t].h_claims <= 1
         /\ tasks[t].status = "pending" <=> tasks[t].h_claims = 0
         /\ Cardinality(WorkersHolding(t)) <= 1

\* Two dispatchers have claimed concurrently, and so have two workers.
C1_Witness ==
    /\ \A w \in Workers : wtask[w] # 0
    /\ \A d \in Dispatchers : dev[d] # 0

\* C2: a task is returned to exactly one worker, that worker is the one that
\* processes it, and a worker whose claim returned nothing processes no task.
C2_OneWorkerProcesses ==
    /\ \A w \in Workers :
         IF wpc[w] = "poll"
         THEN wtask[w] = 0
         ELSE /\ wtask[w] \in Ids(tasks)
              /\ tasks[wtask[w]].h_claims = 1
              /\ tasks[wtask[w]].status = "processing"
    /\ \A t \in Ids(tasks) :
         /\ tasks[t].status = "processing" =>
              Cardinality(WorkersHolding(t)) = 1
         /\ tasks[t].status \in {"complete", "failed"} =>
              /\ tasks[t].h_claims = 1
              /\ WorkersHolding(t) = {}

\* The queue holds exactly one task, one worker is processing it and the
\* other polls with nothing pending.
C2_Witness ==
    /\ Len(tasks) = 1
    /\ wtask["w1"] = 1
    /\ wpc["w1"] = "finish"
    /\ wpc["w2"] = "poll"
    /\ Claimable(tasks) = {}

\* C3: an event of an unroutable kind never has a task made from it, and once
\* a dispatcher has claimed and routed it its status is failed.
C3_UnroutableFails ==
    \A e \in Ids(events) :
        events[e].kind \notin RoutableKinds =>
            /\ TasksFrom(e) = {}
            /\ (events[e].h_claims > 0 /\ DispatchersHolding(e) = {})
                   => events[e].status = "failed"

C3_Witness ==
    \E e \in Ids(events) :
        /\ events[e].kind \notin RoutableKinds
        /\ events[e].h_claims > 0
        /\ events[e].status = "failed"

\* C4: once a dispatcher has claimed and routed a new_inbound_message event
\* there is exactly one task made from it, of kind handle_user_message, and
\* for a send_outbound_message event exactly one of the send kind; the task's
\* payload is the event's payload.
C4_RoutesOneTask ==
    \A e \in Ids(events) :
        (/\ events[e].kind \in RoutableKinds
         /\ events[e].h_claims > 0
         /\ DispatchersHolding(e) = {}) =>
            /\ Cardinality(TasksFrom(e)) = 1
            /\ \A t \in TasksFrom(e) :
                 /\ tasks[t].payload = events[e].payload
                 /\ tasks[t].kind =
                      IF events[e].kind = "new_inbound_message"
                      THEN "handle_user_message"
                      ELSE "execute_whatsapp_send"

\* Both routable kinds have been routed.
C4_Witness ==
    \E e1, e2 \in Ids(events) :
        /\ events[e1].kind = "new_inbound_message"
        /\ events[e2].kind = "send_outbound_message"
        /\ TasksFrom(e1) # {}
        /\ TasksFrom(e2) # {}

\* A task of an inbound message whose routing id matches no tenant.
UnknownTenantTask(t) ==
    /\ tasks[t].kind = "handle_user_message"
    /\ tasks[t].payload.pid # MISSING
    /\ \A b \in Businesses :
         b.whatsapp_phone_number_id # tasks[t].payload.pid

\* A run has written nothing: no event (so no send and no task made from
\* one), no profiling task, no turn and no customer.
NoSideEffects(t) ==
    /\ EventsBy(t) = {}
    /\ \A x \in Ids(tasks) :
         tasks[x].h_src = 0 \/ events[tasks[x].h_src].h_by # t
    /\ ProfilingBy(t) = {}
    /\ TurnsBy(t) = {}
    /\ CustomersBy(t) = {}

\* C5: the run for a payload of an unknown tenant ends aborted at identity
\* resolution and writes nothing.
C5_UnknownTenantAborts ==
    \A t \in Ids(tasks) :
        UnknownTenantTask(t) =>
            /\ NoSideEffects(t)
            /\ tasks[t].h_claims > 0 => tasks[t].h_run = "AbortedIdentity"
            /\ WorkersHolding(t) # {} =>
                 \A w \in WorkersHolding(t) : wpc[w] = "finish"

C5_Witness ==
    \E t \in Ids(tasks) :
        /\ UnknownTenantTask(t)
        /\ tasks[t].h_run = "AbortedIdentity"
        /\ tasks[t].status = "complete"

\* C6: a run whose structured plan generation returned null ends aborted and
\* has enqueued no send, no profiling task and no turn.
C6_NullPlanAborts ==
    \A t \in Ids(tasks) :
        tasks[t].h_plan = "null" =>
            /\ tasks[t].h_run = "AbortedPlan"
            /\ EventsBy(t) = {}
            /\ ProfilingBy(t) = {}
            /\ TurnsBy(t) = {}

C6_Witness ==
    \E t \in Ids(tasks) :
        /\ tasks[t].h_plan = "null"
        /\ tasks[t].status = "complete"

\* A task of an inbound message that meets the payload contract (routing id
\* of a tenant, address, display name, text body).
WellFormedTask(t) ==
    /\ tasks[t].kind = "handle_user_message"
    /\ BusinessesByPhoneId(tasks[t].payload.pid) # {}
    /\ tasks[t].payload.wa_id # MISSING
    /\ tasks[t].payload.name # MISSING
    /\ tasks[t].payload.body # MISSING

\* The (tenant, address) pair a well-formed task is from.
TenantOf(t) == TheRow(BusinessesByPhoneId(tasks[t].payload.pid)).id

\* The run of task t is past the resolution of its EndUser.
PastCustomer(t) ==
    \/ tasks[t].h_run \in {"AbortedPlan", "Executed"}
    \/ \E w \in WorkersHolding(t) : wpc[w] \in {"gather", "exec_send",
                                                 "exec_tools", "exec_save"}

\* C7: with runs executed one after another, once the first message of a
\* (tenant, address) pair has been through EndUser resolution the pair has
\* exactly one EndUser, created by that run; the runs of later messages of
\* the pair create none.
C7_OneEndUserPerPair ==
    \A t \in Ids(tasks) :
        WellFormedTask(t) =>
            LET rows == CustomersOf(TenantOf(t), tasks[t].payload.wa_id) IN
            /\ Cardinality(rows) <= 1
            /\ PastCustomer(t) => Cardinality(rows) = 1
            /\ \A u \in Ids(tasks) :
                 (/\ WellFormedTask(u)
                  /\ u # t
                  /\ TenantOf(u) = TenantOf(t)
                  /\ tasks[u].payload.wa_id = tasks[t].payload.wa_id
                  /\ CustomersBy(t) # {}) => CustomersBy(u) = {}
            /\ Cardinality(CustomersBy(t)) <= 1

\* Two messages of one pair have been processed; the first created the
\* EndUser.
C7_Witness ==
    \E t, u \in Ids(tasks) :
        /\ t # u
        /\ WellFormedTask(t) /\ WellFormedTask(u)
        /\ tasks[t].payload = tasks[u].payload
        /\ tasks[t].status = "complete" /\ tasks[u].status = "complete"
        /\ tasks[t].h_run = "Executed" /\ tasks[u].h_run = "Executed"
        /\ Cardinality(CustomersBy(t)) = 1
        /\ CustomersBy(u) = {}

\* C8: no two customers rows have the same tenant and the same address.
C8_EndUserUnique ==
    \A i, j \in Ids(customers) :
        (/\ customers[i].business_id = customers[j].business_id
         /\ customers[i].phone_number = customers[j].phone_number) => i = j

\* C9: the history a run has gathered is made of the min(8, n) most recent of
\* the n turns its EndUser had when they were read, each once, oldest first:
\* created_at never decreases along it.
C9_HistoryLastN ==
    \A w \in Workers :
        wpc[w] \in {"exec_send", "exec_tools", "exec_save"} =>
            LET h    == svc[w].history
                all  == {i \in Turns(svc[w].customer) : i <= svc[w].h_seen}
                at(i) == conversations[i].created_at
            IN  /\ Len(h) = Min(HistoryLimit, Cardinality(all))
                /\ SeqRange(h) \subseteq all
                /\ \A i, j \in 1..Len(h) : i < j => /\ h[i] # h[j]
                                                    /\ at(h[i]) <= at(h[j])
                /\ \A x \in all \ SeqRange(h) :
                     \A y \in SeqRange(h) : at(x) <= at(y)

\* A run has gathered 8 turns out of more, over several timestamps.
C9_Witness ==
    \E w \in Workers :
        /\ wpc[w] = "exec_send"
        /\ Len(svc[w].history) = HistoryLimit
        /\ Cardinality(Turns(svc[w].customer)) > HistoryLimit
        /\ conversations[svc[w].history[1]].created_at
             < conversations[svc[w].history[HistoryLimit]].created_at

\* C10: a Reconciler that runs again with the refined names and the tenant of
\* its previous run creates no CanonicalTag, whatever ran in between.
C10_ReconcilerIdempotent ==
    \A r \in Reconcilers : rec[r].h_again => rec[r].h_created = 0

\* A rerun has returned after a first run that created tags.
C10_Witness ==
    \E r \in Reconcilers :
        /\ rec[r].h_again
        /\ rec[r].pc = "idle"
        /\ rec[r].refined_names = <<tea, bun>>
        /\ Cardinality(rec[r].final_tag_ids) = 2
        /\ \A i \in rec[r].final_tag_ids : tags[i].tenant_id = rec[r].tenant_id

\* The tenant a product_tags row belongs to: the Reconciler writes it to
\* tenant_id, the tag-creation endpoint to business_id.
TagOwner(row) ==
    IF row.tenant_id # MISSING THEN row.tenant_id ELSE row.business_id

\* C11: no two product_tags rows of one tenant have names that are equal up
\* to letter case.
C11_TagNamesUnique ==
    \A i, j \in Ids(tags) :
        (/\ TagOwner(tags[i]) = TagOwner(tags[j])
         /\ Lower(tags[i].tag_name) = Lower(tags[j].tag_name)) => i = j

\* How a run that returned normally may have ended.
NormalEnds == {"AbortedIdentity", "AbortedCustomer", "AbortedPlan", "Executed"}

\* The worker has claimed task t and is done with it.
Released(t) == tasks[t].h_claims > 0 /\ WorkersHolding(t) = {}

\* C12: a claimed handle_user_message task is run by the Orchestrator on the
\* task's own payload; once the worker is done with it, its status is
\* complete if run() returned normally, and failed with the exception's
\* message in last_error if run() raised.
C12_RunOutcomeSetsStatus ==
    \A t \in Ids(tasks) :
        tasks[t].kind = "handle_user_message" =>
            /\ \A w \in WorkersHolding(t) :
                 wpc[w] \notin {"poll", "finish"} =>
                    /\ svc[w].user_phone = tasks[t].payload.wa_id
                    /\ svc[w].user_message = tasks[t].payload.body
            /\ Released(t) =>
                 /\ tasks[t].h_run \in NormalEnds \cup {"Raised"}
                 /\ tasks[t].h_run \in NormalEnds =>
                      /\ tasks[t].status = "complete"
                      /\ tasks[t].last_error = MISSING
                 /\ tasks[t].h_run = "Raised" =>
                      /\ tasks[t].status = "failed"
                      /\ tasks[t].last_error = StoreError

\* One run has raised and its task is failed, another has returned and its
\* task is complete.
C12_Witness ==
    \E t, u \in Ids(tasks) :
        /\ Released(t) /\ Released(u)
        /\ tasks[t].h_run = "Raised" /\ tasks[t].status = "failed"
        /\ tasks[u].h_run = "Executed" /\ tasks[u].status = "complete"

\* The message the transport is given for a channel-send task.
DeliveryOf(t) ==
    [tenant |-> tasks[t].payload.business_id, to |-> tasks[t].payload.data_to,
     body |-> tasks[t].payload.data_body]

Delivered(t) == \E k \in 1..Len(delivered) : delivered[k] = DeliveryOf(t)

SendTask(t) == tasks[t].kind = "execute_whatsapp_send"

\* C13: once the worker is done with a channel-send task that carries the
\* data envelope, the channel whatsapp and the tenant id, outbound delivery
\* has been invoked for that tenant with that envelope and the task is
\* complete.
C13_SendDelivers ==
    \A t \in Ids(tasks) :
        (/\ SendTask(t)
         /\ SendFieldsPresent(tasks[t].payload)
         /\ tasks[t].payload.channel = "whatsapp"
         /\ Released(t)) =>
            /\ Delivered(t)
            /\ tasks[t].status = "complete"

\* C14: for a channel-send task that lacks the data envelope, the channel or
\* the tenant id nothing is delivered, and once the worker is done with it
\* the task is failed with the validation message in last_error.
C14_SendValidates ==
    \A t \in Ids(tasks) :
        (SendTask(t) /\ ~SendFieldsPresent(tasks[t].payload)) =>
            /\ ~Delivered(t)
            /\ Released(t) =>
                 /\ tasks[t].status = "failed"
                 /\ tasks[t].last_error =
                      "Missing business_id, channel, or data payload for sending message."

\* A task without the data envelope and a task without the channel have
\* both been refused.
C14_Witness ==
    \E t, u \in Ids(tasks) :
        /\ SendTask(t) /\ SendTask(u)
        /\ ~tasks[t].payload.has_data
        /\ tasks[u].payload.channel = MISSING
        /\ tasks[t].status = "failed" /\ tasks[u].status = "failed"

\* C15: for a channel-send task with all three fields whose channel is not
\* whatsapp nothing is delivered, and once the worker is done with it the
\* task is complete, so no claim returns it again.
C15_UnsupportedChannelCompletes ==
    \A t \in Ids(tasks) :
        (/\ SendTask(t)
         /\ SendFieldsPresent(tasks[t].payload)
         /\ tasks[t].payload.channel # "whatsapp") =>
            /\ ~Delivered(t)
            /\ Released(t) =>
                 /\ tasks[t].status = "complete"
                 /\ tasks[t].last_error = MISSING
                 /\ tasks[t].h_claims = 1

C15_Witness ==
    \E t \in Ids(tasks) :
        /\ SendTask(t)
        /\ tasks[t].payload.channel = "sms"
        /\ Released(t)
        /\ tasks[t].status = "complete"

\* C16: a claimed task whose kind is neither handle_user_message nor
\* execute_whatsapp_send (a missing kind included) starts no run and no
\* delivery, and once the worker is done with it the task is failed.
C16_UnknownKindFails ==
    \A t \in Ids(tasks) :
        tasks[t].kind \notin {"handle_user_message", "execute_whatsapp_send"} =>
            /\ tasks[t].h_run = "-"
            /\ \A w \in WorkersHolding(t) : wpc[w] = "finish"
            /\ NoSideEffects(t)
            /\ Released(t) => tasks[t].status = "failed"

\* A task of another lane's kind and a task without a kind have both failed,
\* and nothing was delivered.
C16_Witness ==
    \E t, u \in Ids(tasks) :
        /\ tasks[t].kind = MISSING
        /\ tasks[u].kind = "run_profiling_analysis"
        /\ tasks[t].status = "failed" /\ tasks[u].status = "failed"
        /\ delivered = << >>

\* Ids that rows of event_dispatcher and realtime_tasks can have.
RowIds == 1..(2 * MaxLoopEvents)

LoopsRunning ==
    /\ \A d \in Dispatchers : dpc[d] \in {"poll", "route"}
    /\ \A w \in Workers :
         wpc[w] \in {"poll", "find", "insert", "refetch", "gather",
                     "exec_send", "exec_tools", "exec_save", "finish"}

\* C17: whatever request has raised, both loops are still in their cycle,
\* and an event or a task that is pending after an exception is claimed
\* later on.
C17_LoopsSurviveErrors ==
    /\ []LoopsRunning
    /\ \A i \in RowIds :
         (faults > 0 /\ i \in Claimable(events)) ~> (i \notin Claimable(events))
    /\ \A i \in RowIds :
         (faults > 0 /\ i \in Claimable(tasks)) ~> (i \notin Claimable(tasks))

\* The worker's status update has raised after a run that had returned (the
\* handler wrote failed with the store's message), and after every exception
\* an event and a task have still been claimed.
C17_Witness ==
    /\ \E t \in Ids(tasks) :
         /\ tasks[t].h_run \in NormalEnds
         /\ tasks[t].status = "failed"
         /\ tasks[t].last_error = StoreError
    /\ \E e \in Ids(events) : events[e].h_after = MaxFaults
    /\ \E t \in Ids(tasks) : tasks[t].h_after = MaxFaults

\* Nothing is pending and no loop holds a row: both loops have gone through
\* everything that was queued.
Quiescent ==
    /\ Claimable(events) = {}
    /\ Claimable(tasks) = {}
    /\ \A d \in Dispatchers : dpc[d] = "poll"
    /\ \A w \in Workers : wpc[w] = "poll"

\* An inbound event of a known tenant that carries what the run reads.
KnownInbound(e) ==
    /\ events[e].kind = "new_inbound_message"
    /\ BusinessesByPhoneId(events[e].payload.pid) # {}
    /\ events[e].payload.wa_id # MISSING
    /\ events[e].payload.name # MISSING
    /\ events[e].payload.body # MISSING

\* C18: when both loops have gone through everything, each inbound event of a
\* known tenant has a complete task, and each reply its run has enqueued
\* (the plan's response_text was not empty) has a complete send task whose
\* message was given to outbound delivery, addressed to the sender.
C18_FlowReachesDelivery ==
    Quiescent =>
        \A e \in Ids(events) :
            KnownInbound(e) =>
                /\ TasksFrom(e) # {}
                /\ \A t \in TasksFrom(e) :
                     /\ tasks[t].status = "complete"
                     /\ \A r \in EventsBy(t) :
                          /\ TasksFrom(r) # {}
                          /\ \A u \in TasksFrom(r) :
                               /\ tasks[u].status = "complete"
                               /\ Delivered(u)
                               /\ DeliveryOf(u).to = events[e].payload.wa_id

\* The position of a worker in its iteration, in the order of run().
Rank(pc) ==
    CASE pc = "poll"       -> 0
      [] pc = "find"       -> 1
      [] pc = "insert"     -> 2
      [] pc = "refetch"    -> 3
      [] pc = "gather"     -> 4
      [] pc = "exec_send"  -> 5
      [] pc = "exec_tools" -> 6
      [] pc = "exec_save"  -> 7
      [] OTHER             -> 8

\* A run is at a step only if the steps before it have succeeded.
StepEntered(w) ==
    LET t == tasks[wtask[w]] IN
    /\ wpc[w] \in {"find", "insert", "refetch"} =>
         /\ svc[w].business # MISSING /\ svc[w].user_phone # MISSING
         /\ svc[w].customer = 0
         /\ t.h_plan = "-" /\ t.h_run = "-"
    /\ wpc[w] = "gather" =>
         /\ svc[w].business # MISSING /\ svc[w].user_phone # MISSING
         /\ svc[w].customer \in Ids(customers)
         /\ t.h_plan = "-" /\ t.h_run = "-"
    /\ wpc[w] \in {"exec_send", "exec_tools", "exec_save"} =>
         /\ svc[w].business # MISSING /\ svc[w].user_phone # MISSING
         /\ svc[w].customer \in Ids(customers)
         /\ t.h_plan = "plan" /\ svc[w].plan # NoPlan
         /\ t.h_run = "-"

\* How the run of task t has ended, and what had run by then.
RunEnded(t) ==
    /\ tasks[t].h_run = "AbortedIdentity" =>
         /\ tasks[t].h_plan = "-"
         /\ NoSideEffects(t)
    /\ tasks[t].h_run = "AbortedCustomer" =>
         /\ tasks[t].h_plan = "-"
         /\ EventsBy(t) = {} /\ ProfilingBy(t) = {} /\ TurnsBy(t) = {}
    /\ tasks[t].h_run = "AbortedPlan" =>
         /\ tasks[t].h_plan = "null"
         /\ EventsBy(t) = {} /\ ProfilingBy(t) = {} /\ TurnsBy(t) = {}
    /\ tasks[t].h_run = "Executed" => tasks[t].h_plan = "plan"
    /\ (tasks[t].kind = "handle_user_message" /\ tasks[t].status = "complete")
         => tasks[t].h_run \in NormalEnds

\* A worker only moves forward through the steps, and a run ends Executed
\* only from the last statement of plan execution.
StepForward(w) ==
    /\ wpc'[w] # wpc[w] => (Rank(wpc[w]) < Rank(wpc'[w]) \/ wpc'[w] = "poll")
    /\ (wtask[w] # 0 /\ tasks'[wtask[w]].h_run = "Executed"
                     /\ tasks[wtask[w]].h_run # "Executed")
         => wpc[w] = "exec_save"

\* C19: a run goes through identity resolution, EndUser resolution, context
\* gathering and plan generation, plan execution in that order, is at a step
\* only when every earlier step succeeded, and when it has returned it has
\* ended Executed, after the whole of plan execution, or Aborted, with no
\* later step run.
C19_StepsInOrder ==
    /\ [](/\ \A w \in Workers : StepEntered(w)
          /\ \A t \in Ids(tasks) : RunEnded(t))
    /\ [][\A w \in Workers : StepForward(w)]_vars

\* Runs have ended in each of the ways a run that returns can end.
C19_Witness ==
    /\ \E t \in Ids(tasks) : tasks[t].h_run = "Executed" /\ Released(t)
    /\ \E t \in Ids(tasks) : tasks[t].h_run \in {"AbortedPlan",
                                                  "AbortedCustomer",
                                                  "AbortedIdentity"}
                             /\ Released(t)

\* The requests of steps 1 to 3 (tenant lookup, EndUser find, insert and
\* re-read, reads of history and of memory facts) and those of plan
\* execution.
EarlySites == {"business", "find", "insert", "refetch", "history", "memory"}

ExecutionSites == {"send", "profiling", "save"}

\* C20: a run in which a request of steps 1 to 3 raised has ended Aborted and
\* its task becomes complete; a run in which a request of plan execution
\* raised has raised to the worker and its task becomes failed.
C20_OnlyExecutionRaises ==
    \A t \in Ids(tasks) :
        /\ tasks[t].h_site \in EarlySites =>
             /\ tasks[t].h_run \in {"AbortedIdentity", "AbortedCustomer"}
             /\ Released(t) => tasks[t].status = "complete"
        /\ tasks[t].h_site \in ExecutionSites =>
             /\ tasks[t].h_run = "Raised"
             /\ Released(t) => tasks[t].status = "failed"

\* The ways EndUser resolution fails: the payload has an empty channel
\* address, the lookup, the insert or the re-read raises, or the payload has
\* no display name for an EndUser to be created.
CustomerSites == {"phone", "find", "insert", "refetch", "name"}

\* C21: a run whose EndUser resolution failed has ended Aborted there: it has
\* gathered no context and requested no plan, and it has produced no send, no
\* profiling task and no turn.
C21_CustomerFailureAborts ==
    \A t \in Ids(tasks) :
        tasks[t].h_site \in CustomerSites =>
            /\ tasks[t].h_run = "AbortedCustomer"
            /\ tasks[t].h_plan = "-"
            /\ \A w \in WorkersHolding(t) :
                 /\ wpc[w] = "finish"
                 /\ svc[w].history = << >>
                 /\ svc[w].long_term_memory = << >>
                 /\ svc[w].rag_knowledge = << >>
                 /\ svc[w].plan = NoPlan
            /\ EventsBy(t) = {}
            /\ ProfilingBy(t) = {}
            /\ TurnsBy(t) = {}

\* One run was aborted by a payload without a display name, another by a
\* re-read that raised after its insert.
C21_Witness ==
    \E t, u \in Ids(tasks) :
        /\ tasks[t].h_site = "name" /\ Released(t)
        /\ tasks[u].h_site = "refetch" /\ Released(u)
        /\ CustomersBy(u) # {}

\* C22: a run whose knowledge retrieval raised has gone on to plan
\* generation, and the context it hands to it has no knowledge and has the
\* history (the last min(8, n) turns) and the memory facts that were read.
C22_KnowledgeFailureProceeds ==
    \A t \in Ids(tasks) :
        tasks[t].h_rag = "failed" =>
            /\ tasks[t].h_plan \in {"plan", "null"}
            /\ tasks[t].h_run \notin {"AbortedIdentity", "AbortedCustomer"}
            /\ \A w \in WorkersHolding(t) :
                 wpc[w] \in {"exec_send", "exec_tools", "exec_save"} =>
                    /\ svc[w].rag_knowledge = << >>
                    /\ Len(svc[w].history) =
                         Min(HistoryLimit,
                             Cardinality({i \in Turns(svc[w].customer) :
                                            i <= svc[w].h_seen}))
                    /\ svc[w].long_term_memory = MemoryQuery(svc[w].customer)

\* Retrieval raised for a tenant that has knowledge, in a run that had read
\* turns and memory facts and then got a plan.
C22_Witness ==
    \E w \in Workers :
        /\ wpc[w] = "exec_send"
        /\ tasks[wtask[w]].h_rag = "failed"
        /\ KnowledgeOf(svc[w].business) # << >>
        /\ Len(svc[w].history) >= 2
        /\ svc[w].long_term_memory # << >>
        /\ svc[w].rag_knowledge = << >>

\* C23: with the generative gateway, the embedding service and the store all
\* answering, a run with a message whose tenant has matching snippets hands
\* plan generation exactly the contents of those snippets as knowledge.
C23_KnowledgeReachesPlan ==
    \A w \in Workers :
        (/\ wpc[w] \in {"exec_send", "exec_tools", "exec_save"}
         /\ svc[w].user_message \notin {MISSING, ""}
         /\ KnowledgeOf(svc[w].business) # << >>) =>
            svc[w].rag_knowledge = KnowledgeOf(svc[w].business)

\* A payload that lacks the contact, the message or the tenant routing id.
Malformed(payload) ==
    \/ payload.wa_id = MISSING
    \/ payload.mtype = MISSING /\ payload.body = MISSING
    \/ payload.pid = MISSING

\* The run of task t has ended Aborted at step 1, or will: nothing is
\* written and the worker goes straight to the status update.
AbortsAtStepOne(t) ==
    /\ NoSideEffects(t)
    /\ tasks[t].h_claims > 0 => tasks[t].h_run = "AbortedIdentity"
    /\ \A w \in WorkersHolding(t) : wpc[w] = "finish"

\* C24: the run for a payload that is malformed, or whose first message is
\* not of type text, ends Aborted at step 1, with no EndUser created, no
\* send, no profiling task and no turn.
C24_OnlyTextProceeds ==
    \A t \in Ids(tasks) :
        (/\ tasks[t].kind = "handle_user_message"
         /\ \/ Malformed(tasks[t].payload)
            \/ tasks[t].payload.mtype # "text") => AbortsAtStepOne(t)

\* The positions of a worker inside plan execution.
InExecution == {"exec_send", "exec_tools", "exec_save"}

\* A run whose structured result named a tool outside the three kinds got
\* null from the gateway and ended Aborted after plan generation.
UnknownToolAborts(t) ==
    /\ tasks[t].h_plan = "null"
    /\ tasks[t].h_run = "AbortedPlan"
    /\ \A w \in WorkersHolding(t) : wpc[w] = "finish"

\* The plan of a run that is in plan execution names only tools of the three
\* kinds.
ExecutedToolsKnown ==
    \A w \in Workers :
        wpc[w] \in InExecution =>
            \A i \in 1..Len(svc[w].plan.tool_calls) :
                svc[w].plan.tool_calls[i].name \in ToolNames

\* The rows of customers the run of task t may have inserted before plan
\* generation: at most one, the EndUser of the payload's tenant and address.
OnlyOwnEndUser(t) ==
    /\ Cardinality(CustomersBy(t)) <= 1
    /\ \A c \in CustomersBy(t) :
         /\ Single(BusinessesByPhoneId(tasks[t].payload.pid))
         /\ customers[c].business_id =
              TheRow(BusinessesByPhoneId(tasks[t].payload.pid)).id
         /\ customers[c].phone_number = tasks[t].payload.wa_id
         /\ customers[c].customer_name = tasks[t].payload.name

\* C25 as stated: a run whose structured result named a tool outside the
\* three kinds got null from the gateway and ended Aborted with no side
\* effect at all (no send, no task, no turn and no EndUser); and the plan of
\* a run that is in plan execution names only tools of the three kinds.
C25_AbortWritesNothing ==
    /\ \A t \in Ids(tasks) :
         ~(tasks[t].h_tools \subseteq ToolNames) =>
            UnknownToolAborts(t) /\ NoSideEffects(t)
    /\ ExecutedToolsKnown

\* C25: a run whose structured result named a tool outside the three kinds
\* got null from the gateway and ended Aborted, having enqueued no send and
\* no profiling task and persisted no turn; the one row it may have written
\* is the EndUser of its own payload, created before plan generation; and
\* the plan of a run that is in plan execution names only tools of the three
\* kinds.
C25_ToolKindsClosed ==
    /\ \A t \in Ids(tasks) :
         ~(tasks[t].h_tools \subseteq ToolNames) =>
            /\ UnknownToolAborts(t)
            /\ EventsBy(t) = {}
            /\ \A x \in Ids(tasks) :
                 tasks[x].h_src = 0 \/ events[tasks[x].h_src].h_by # t
            /\ ProfilingBy(t) = {}
            /\ TurnsBy(t) = {}
            /\ OnlyOwnEndUser(t)
    /\ ExecutedToolsKnown

\* A result that named a known and an unknown tool has aborted the run of a
\* new end user, whose EndUser row the run had created.
C25_Witness ==
    \E t \in Ids(tasks) :
        /\ "refund_order" \in tasks[t].h_tools
        /\ "queue_for_profiling" \in tasks[t].h_tools
        /\ tasks[t].h_run = "AbortedPlan"
        /\ Released(t)
        /\ CustomersBy(t) # {}

\* The send a run has enqueued for its reply: a send_outbound_message event
\* addressed to the end user, with the reply as body and the tenant's id in
\* its config, from which the Dispatcher makes the channel-send task.
IsReplyOf(e, w) ==
    /\ events[e].kind = "send_outbound_message"
    /\ events[e].payload.data_to = svc[w].user_phone
    /\ events[e].payload.data_to = tasks[wtask[w]].payload.wa_id
    /\ events[e].payload.data_body = svc[w].plan.response_text
    /\ events[e].payload.channel = "whatsapp"
    /\ events[e].payload.business_id = svc[w].business
    /\ events[e].payload.has_data

\* C26: a run that is past the reply step of plan execution has enqueued
\* exactly one send if its response_text is not empty, and none if it is
\* empty; no run ever has more than one send, and the one channel-send task
\* made from a send carries what the run enqueued.
C26_SendIffResponse ==
    /\ \A w \in Workers :
         /\ wpc[w] = "exec_send" => EventsBy(wtask[w]) = {}
         /\ wpc[w] \in {"exec_tools", "exec_save"} =>
              IF svc[w].plan.response_text # ""
              THEN /\ Cardinality(EventsBy(wtask[w])) = 1
                   /\ \A e \in EventsBy(wtask[w]) : IsReplyOf(e, w)
              ELSE EventsBy(wtask[w]) = {}
    /\ \A t \in Ids(tasks) :
         /\ Cardinality(EventsBy(t)) <= 1
         /\ EventsBy(t) # {} => tasks[t].h_plan = "plan"
         /\ \A e \in EventsBy(t) :
              /\ Cardinality(TasksFrom(e)) <= 1
              /\ Quiescent => Cardinality(TasksFrom(e)) = 1
              /\ \A u \in TasksFrom(e) :
                   /\ tasks[u].kind = "execute_whatsapp_send"
                   /\ tasks[u].payload = events[e].payload

\* One run replied and its send has become a task; another run, whose plan
\* has an empty response_text, is at the end of plan execution.
C26_Witness ==
    \E t \in Ids(tasks), w \in Workers :
        /\ tasks[t].h_run = "Executed"
        /\ \E e \in EventsBy(t) : TasksFrom(e) # {}
        /\ wpc[w] = "exec_save"
        /\ svc[w].plan.response_text = ""
        /\ EventsBy(wtask[w]) = {}

\* The tool calls of its plan a worker in plan execution has gone through.
CallsDone(w) ==
    CASE wpc[w] = "exec_tools" -> svc[w].tool_i - 1
      [] wpc[w] = "exec_save"  -> Len(svc[w].plan.tool_calls)
      [] OTHER                 -> 0

\* The queue_for_profiling calls among the first k calls of a worker's plan.
ProfilingCalls(w, k) ==
    {i \in 1..k : svc[w].plan.tool_calls[i].name = "queue_for_profiling"}

\* The profiling task the run of worker w enqueues for call i of its plan.
ProfilingOf(w, i) ==
    [kind |-> "run_profiling_analysis", customer_id |-> svc[w].customer,
     business_id |-> svc[w].business,
     summary |-> svc[w].plan.tool_calls[i].summary,
     full_conversation |->
        HistoryView(svc[w].history)
           \o << [role |-> "user",
                  content |-> tasks[wtask[w]].payload.body] >>,
     status |-> "pending", h_by |-> wtask[w]]

\* The profiling tasks of a run are those of the queue_for_profiling calls it
\* has gone through, in the order of the calls.
ProfilingMatchesCalls(w) ==
    LET rows  == ProfilingBy(wtask[w])
        calls == ProfilingCalls(w, CallsDone(w))
    IN  /\ Cardinality(rows) = Cardinality(calls)
        /\ \A r \in rows : \A i \in calls :
             Cardinality({x \in rows : x <= r})
                = Cardinality({j \in calls : j <= i})
             => profiling[r] = ProfilingOf(w, i)

\* A turn of the loop over a call of another kind writes nothing.
OtherCallsWriteNothing(w) ==
    (/\ wpc[w] = "exec_tools"
     /\ svc'[w].tool_i = svc[w].tool_i + 1
     /\ svc[w].plan.tool_calls[svc[w].tool_i].name # "queue_for_profiling")
        => UNCHANGED <<events, tasks, customers, conversations, profiling,
                       delivered, tags>>

\* C27: a run in plan execution has enqueued one profiling task for each
\* queue_for_profiling call it has gone through (so as many as the plan has
\* such calls when the loop is over), each with the EndUser id, the tenant
\* id, the summary of its call and the gathered history followed by the
\* current message; a call of another kind writes nothing to the stores.
C27_ProfilingPerCall ==
    /\ [](\A w \in Workers : wpc[w] \in InExecution => ProfilingMatchesCalls(w))
    /\ [][\A w \in Workers : OtherCallsWriteNothing(w)]_vars

\* A run with turns in its history is through a plan with two profiling
\* calls and two calls of the other kinds.
C27_Witness ==
    \E w \in Workers :
        /\ wpc[w] = "exec_save"
        /\ Len(svc[w].plan.tool_calls) = 4
        /\ Cardinality(ProfilingBy(wtask[w])) = 2
        /\ Len(svc[w].history) >= 2
        /\ \E r \in ProfilingBy(wtask[w]) : profiling[r].summary = "has a dog"

\* What a step may do to conversations: nothing, or append the two turns of
\* the run of a worker that is at the last statement of plan execution with
\* an EndUser and a reply.
TurnsInsertedBy(w) ==
    LET n == Len(conversations)
        t == wtask[w]
    IN  /\ wpc[w] = "exec_save" /\ wpc'[w] = "finish"
        /\ svc[w].customer \in Ids(customers)
        /\ svc[w].plan.response_text \notin {"", MISSING}
        /\ Len(conversations') = n + 2
        /\ SubSeq(conversations', 1, n) = conversations
        /\ conversations'[n + 1].role = "user"
        /\ conversations'[n + 1].content = tasks[t].payload.body
        /\ conversations'[n + 2].role = "assistant"
        /\ conversations'[n + 2].content = svc[w].plan.response_text
        /\ conversations'[n + 1].customer_id = svc[w].customer
        /\ conversations'[n + 2].customer_id = svc[w].customer
        /\ conversations'[n + 1].h_by = t /\ conversations'[n + 2].h_by = t
        /\ TurnsBy(t) = {}

\* A run that returns from plan execution with an empty reply persists none.
EmptyReplySavesNothing(w) ==
    (/\ wpc[w] = "exec_save" /\ wpc'[w] = "finish"
     /\ svc[w].plan.response_text = "") => conversations' = conversations

\* C28: turns are persisted only by a run that has an EndUser and a
\* non-empty response_text, as the last effect of plan execution, two at
\* once: the end-user turn with the raw message, then the assistant turn
\* with response_text, both of that EndUser; every other run persists none.
C28_TurnsOnlyWithReply ==
    /\ [][\/ conversations' = conversations
          \/ \E w \in Workers : TurnsInsertedBy(w)]_vars
    /\ [][\A w \in Workers : EmptyReplySavesNothing(w)]_vars
    /\ [](\A t \in Ids(tasks) :
            /\ Cardinality(TurnsBy(t)) \in {0, 2}
            /\ tasks[t].h_run # "Executed" => TurnsBy(t) = {})

\* One run has persisted its two turns, and another has executed a plan with
\* an empty reply for the same EndUser and persisted none.
C28_Witness ==
    \E t, u \in Ids(tasks) :
        /\ tasks[t].h_run = "Executed" /\ Cardinality(TurnsBy(t)) = 2
        /\ tasks[u].h_run = "Executed" /\ TurnsBy(u) = {} /\ Released(u)
        /\ tasks[u].payload = tasks[t].payload

\* Two runs of the Orchestrator on the same inbound payload that have both
\* executed a plan with the same non-empty response_text.
SameRunTwice(t, u) ==
    /\ t # u
    /\ tasks[t].kind = "handle_user_message"
    /\ tasks[u].kind = "handle_user_message"
    /\ tasks[t].payload = tasks[u].payload
    /\ tasks[t].h_run = "Executed" /\ tasks[u].h_run = "Executed"
    /\ tasks[t].h_text = tasks[u].h_text
    /\ tasks[t].h_text \notin {"", MISSING}

\* C29: two runs on the same inbound payload, each with a plan carrying the
\* same non-empty response_text, have enqueued two sends and persisted four
\* turns between them: the second run repeats what the first did.
C29_NotIdempotent ==
    \A t, u \in Ids(tasks) :
        SameRunTwice(t, u) =>
            /\ Cardinality(EventsBy(t) \cup EventsBy(u)) = 2
            /\ Cardinality(TurnsBy(t) \cup TurnsBy(u)) = 4
            /\ \A e \in EventsBy(t), f \in EventsBy(u) :
                 events[e].payload = events[f].payload

\* The same payload has been run twice with the reply "hello", and both
\* sends have become tasks.
C29_Witness ==
    \E t, u \in Ids(tasks) :
        /\ SameRunTwice(t, u)
        /\ tasks[t].h_text = "hello"
        /\ Released(t) /\ Released(u)
        /\ \A e \in EventsBy(t) \cup EventsBy(u) : TasksFrom(e) # {}

\* C30: an event is in processing only while the Dispatcher that claimed it
\* is still in the iteration of that claim; once the iteration is over the
\* event has a final status, which for an event of a routable kind, whose
\* task has been created, is done.
C30_EventsLeaveProcessing ==
    \A e \in Ids(events) :
        (events[e].h_claims > 0 /\ DispatchersHolding(e) = {}) =>
            /\ events[e].status # "processing"
            /\ (events[e].kind \in RoutableKinds /\ TasksFrom(e) # {})
                  => events[e].status = "done"

\* A step leaves a task that is complete or failed as it is, and never puts
\* a claimed task back to pending.
TaskStaysTerminal(t) ==
    /\ tasks[t].status \in {"complete", "failed"} =>
         /\ tasks'[t].status = tasks[t].status
         /\ tasks'[t].last_error = tasks[t].last_error
         /\ tasks'[t].h_claims = tasks[t].h_claims
         /\ \A w \in Workers : wtask'[w] # t
    /\ tasks[t].status # "pending" => tasks'[t].status # "pending"

\* The same for an event that is failed.
EventStaysTerminal(e) ==
    /\ events[e].status = "failed" =>
         /\ events'[e].status = "failed"
         /\ events'[e].h_claims = events[e].h_claims
         /\ \A d \in Dispatchers : dev'[d] # e
    /\ events[e].status # "pending" => events'[e].status # "pending"

\* C31: once a task is complete or failed, or an event is failed, no step of
\* either loop claims it or changes its status or last_error, and no row
\* that was claimed is made pending again: failed rows are not retried.
C31_TerminalIsFinal ==
    [][/\ \A t \in Ids(tasks) : TaskStaysTerminal(t)
       /\ \A e \in Ids(events) : EventStaysTerminal(e)]_vars

\* A failed task, a complete task and a failed event are in the queues, and
\* both loops have polled again after them and found nothing to claim.
C31_Witness ==
    /\ Quiescent
    /\ \E t, u \in Ids(tasks) :
         /\ tasks[t].status = "failed" /\ tasks[t].last_error # MISSING
         /\ tasks[u].status = "complete"
    /\ \E e \in Ids(events) : events[e].status = "failed"

\* The tags of a tenant that were in the store when run r read the tag set.
TagsAtFetch(r) ==
    {i \in 1..rec[r].h_fetched : TagOwner(tags[i]) = rec[r].tenant_id}

\* The tags run r has created so far.
CreatedBy(r) == {j \in rec[r].final_tag_ids : j > rec[r].h_fetched}

\* C32: a reconciliation run creates a tag only for a refined name that
\* matches, up to letter case, no tag the tenant had when the run read the
\* tag set; a tag it creates is lower-cased, carries the embedding of its
\* name and belongs to the tenant; and the ids it returns are ids of tags it
\* matched or created.
C32_ReconcileMatchesOrCreates ==
    \A r \in Reconcilers :
        rec[r].h_runs > 0 =>
            /\ \A j \in CreatedBy(r) :
                 /\ tags[j].tag_name = Lower(tags[j].tag_name)
                 /\ tags[j].embedding = get_embedding(tags[j].tag_name)
                 /\ tags[j].tenant_id = rec[r].tenant_id
                 /\ \A i \in TagsAtFetch(r) :
                      Lower(tags[i].tag_name) # tags[j].tag_name
            /\ \A j \in rec[r].final_tag_ids \ CreatedBy(r) :
                 /\ j \in TagsAtFetch(r)
                 /\ \E k \in 1..Len(rec[r].refined_names) :
                      Lower(tags[j].tag_name) = Lower(rec[r].refined_names[k])

\* C33: no generative call of a core component raises to its caller: tag
\* refinement returns a list whatever the provider does, and the query
\* rewrite of a run returns a query.
C33_GenerativeCallsNeverRaise ==
    /\ \A r \in Reconcilers : rec[r].h_refine # "raised"
    /\ \A t \in Ids(tasks) : tasks[t].h_rag # "failed"

\* The kinds the Dispatcher routes to a lane.
RoutedKinds == {"new_inbound_message", "send_outbound_message"}

\* C34: every event the inbound boundary or the Orchestrator inserts has
\* kind new_inbound_message or send_outbound_message, and none of them is
\* marked failed as unroutable.
C34_SystemEventsRoutable ==
    \A e \in Ids(events) :
        /\ events[e].kind \in RoutedKinds
        /\ ~(events[e].status = "failed" /\ events[e].kind \notin RoutedKinds)

\* The table new holds every row of old, unchanged and at its place.
GrowsByInserts(old, new) ==
    /\ Len(new) >= Len(old)
    /\ \A i \in 1..Len(old) : new[i] = old[i]

\* C35: no step of the Dispatcher, the Task Worker, the Orchestrator or the
\* Reconciler updates or deletes a customers, conversations or product_tags
\* row: the three tables only grow by inserts (businesses is never written).
C35_RowsOnlyInserted ==
    [][/\ GrowsByInserts(customers, customers')
       /\ GrowsByInserts(conversations, conversations')
       /\ GrowsByInserts(tags, tags')]_vars

\* A run has resolved its customer and saved its turns, and a second
\* reconciliation has matched a tag the first one created.
C35_Witness ==
    /\ customers # << >>
    /\ conversations # << >>
    /\ rec["r1"].pc = "idle"
    /\ rec["r1"].h_runs = 2
    /\ rec["r1"].h_created = 0
    /\ rec["r1"].final_tag_ids # {}
    /\ \E w \in Workers : wpc[w] = "poll" /\ \E t \in Ids(tasks) :
          tasks[t].h_run = "Executed" /\ tasks[t].status = "complete"

\* An event row stays in the table with what was inserted (its status is
\* the Dispatcher's to change).
EventKept(e) ==
    /\ e \in Ids(events')
    /\ events'[e].kind = events[e].kind
    /\ events'[e].payload = events[e].payload
    /\ events'[e].h_by = events[e].h_by

\* The effects of plan execution appear in the order send, profiling tasks,
\* turns: a run that has written a later effect has written the earlier ones
\* its plan asks for.
EffectsInOrder(t) ==
    /\ ProfilingBy(t) # {} =>
          (tasks[t].h_text # "" => EventsBy(t) # {})
    /\ TurnsBy(t) # {} =>
          /\ EventsBy(t) # {}
          /\ "queue_for_profiling" \in tasks[t].h_tools => ProfilingBy(t) # {}

\* What a run whose plan execution raised leaves behind.
RaisedLeaves(t) ==
    /\ tasks[t].h_site \in {"profiling", "save"} =>
          /\ TurnsBy(t) = {}
          /\ tasks[t].h_text # "" =>
                /\ Cardinality(EventsBy(t)) = 1
                /\ \A e \in EventsBy(t) :
                     /\ events[e].kind = "send_outbound_message"
                     /\ events[e].payload.data_body = tasks[t].h_text
    /\ tasks[t].h_site = "save" =>
          /\ tasks[t].h_text # ""
          /\ "queue_for_profiling" \in tasks[t].h_tools => ProfilingBy(t) # {}
    /\ tasks[t].h_site \in {"send", "profiling", "save"} =>
          /\ tasks[t].h_run = "Raised"
          /\ Released(t) => /\ tasks[t].status = "failed"
                             /\ tasks[t].last_error = StoreError

\* C36: no step takes back an effect of plan execution (the reply event, a
\* profiling task, a turn); the effects are written in the order send,
\* profiling tasks, turns; and a run that raises in plan execution ends
\* failed with the effects written before the raise in place: the reply is
\* enqueued and no turn is recorded.
C36_NoRollback ==
    /\ [][/\ \A e \in Ids(events) : EventKept(e)
          /\ GrowsByInserts(profiling, profiling')
          /\ GrowsByInserts(conversations, conversations')]_vars
    /\ [](\A t \in Ids(tasks) : EffectsInOrder(t) /\ RaisedLeaves(t))

\* The insert of the turns raised: the task is failed, its reply is enqueued
\* and its profiling task written, and no turn is recorded.
C36_Witness ==
    \E t \in Ids(tasks) :
        /\ tasks[t].status = "failed"
        /\ tasks[t].h_site = "save"
        /\ EventsBy(t) # {}
        /\ ProfilingBy(t) # {}
        /\ TurnsBy(t) = {}

\* The ids a run returns for a lower-cased name.
ReturnedFor(r, n) == {j \in rec[r].final_tag_ids : tags[j].tag_name = n}

\* A run that has returned went through every refined name: each one has an
\* id in the result or a failed creation.
EveryNameProcessed(r) ==
    (rec[r].pc = "idle" /\ rec[r].h_runs > 0) =>
        \A k \in 1..Len(rec[r].refined_names) :
            LET n == Lower(rec[r].refined_names[k]) IN
            n \in rec[r].h_failed \/ ReturnedFor(r, n) # {}

\* A step in which a creation of run r fails: it adds no id and it goes on
\* to the next name, or returns after the last one.
FailedCreationGoesOn(r) ==
    rec'[r].h_failed # rec[r].h_failed /\ rec[r].pc = "loop" =>
        /\ rec'[r].final_tag_ids = rec[r].final_tag_ids
        /\ tags' = tags
        /\ IF rec[r].i < Len(rec[r].refined_names)
           THEN rec'[r].pc = "loop" /\ rec'[r].i = rec[r].i + 1
           ELSE rec'[r].pc = "idle"

\* C37 as stated: a failed creation never stops the loop, and the returned
\* ids hold no id for a name whose creation failed.
C37_FailedNameNotReturned ==
    \A r \in Reconcilers :
        /\ EveryNameProcessed(r)
        /\ \A n \in rec[r].h_failed : ReturnedFor(r, n) = {}

\* C37, amended: a failed creation never raises and never stops the loop,
\* and the failed attempt adds no id: the returned ids hold an id for a name
\* whose creation failed only if a later occurrence of the name in the same
\* run was created by the run itself; a tag of that name written by another
\* run is never returned.
C37_FailedAttemptAddsNoId ==
    /\ [][\A r \in Reconcilers : FailedCreationGoesOn(r)]_vars
    /\ [](\A r \in Reconcilers :
            /\ EveryNameProcessed(r)
            /\ Cardinality(CreatedBy(r)) = rec[r].h_created
            /\ \A n \in rec[r].h_failed : ReturnedFor(r, n) \subseteq CreatedBy(r))

\* A run has returned after losing the creation of "tea" to a concurrent
\* run: the tag is in the store for its tenant, its id is not returned, and
\* the name after it was created and returned.
C37_Witness ==
    \E r \in Reconcilers :
        /\ rec[r].pc = "idle"
        /\ rec[r].refined_names = <<tea, bun>>
        /\ rec[r].h_failed = {tea}
        /\ faults = 0
        /\ \E j \in Ids(tags) : /\ tags[j].tag_name = tea
                                 /\ tags[j].tenant_id = rec[r].tenant_id
                                 /\ j \notin rec[r].final_tag_ids
        /\ ReturnedFor(r, bun) # {}

\* The lower-cased forms of the refined names of a run.
LoweredNames(r) ==
    {Lower(rec[r].refined_names[k]) : k \in 1..Len(rec[r].refined_names)}

\* C38: within one run, refined names that are equal up to letter case
\* create at most one tag between them, and every returned id is the id of
\* a tag of the run's tenant whose name is the lower-cased form of a refined
\* name (the ids are collected in a set, so none is returned twice).
C38_OneTagPerName ==
    \A r \in Reconcilers :
        /\ Cardinality(CreatedBy(r)) = rec[r].h_created
        /\ \A j, k \in CreatedBy(r) :
             tags[j].tag_name = tags[k].tag_name => j = k
        /\ rec[r].h_created <= Cardinality(LoweredNames(r))
        /\ \A j \in rec[r].final_tag_ids :
             /\ j \in Ids(tags)
             /\ tags[j].tenant_id = rec[r].tenant_id
             /\ tags[j].tag_name \in LoweredNames(r)

\* A run on the names Tea and tea has returned: it created one tag and
\* returns one id.
C38_Witness ==
    \E r \in Reconcilers :
        /\ rec[r].pc = "idle"
        /\ rec[r].refined_names = <<Tea, tea>>
        /\ rec[r].h_created = 1
        /\ Cardinality(rec[r].final_tag_ids) = 1
        /\ \A j \in rec[r].final_tag_ids : tags[j].tag_name = tea

\* C39: profiling tasks go to profiling_tasks, a lane neither loop claims
\* from: no step changes a profiling task once it is written, every one
\* keeps its initial status, and none is in a lane a loop polls.
C39_ProfilingNeverClaimed ==
    /\ [][GrowsByInserts(profiling, profiling')]_vars
    /\ [](\A p \in Ids(profiling) :
            /\ profiling[p].status = "pending"
            /\ profiling[p].kind = "run_profiling_analysis")
    /\ [](/\ \A t \in Ids(tasks) : tasks[t].kind # "run_profiling_analysis"
          /\ \A e \in Ids(events) : events[e].kind # "run_profiling_analysis")

\* Both loops have drained their lanes and the profiling tasks of a run are
\* still there.
C39_Witness ==
    /\ Quiescent
    /\ Len(profiling) >= 2
    /\ \A t \in Ids(tasks) : tasks[t].status \in {"complete", "failed"}
    /\ \E t \in Ids(tasks) : Cardinality(ProfilingBy(t)) = 2

\* The memory facts of an EndUser, as the prompt gets them.
FactsOf(c) ==
    {[fact_key |-> CustomerMemory[i].fact_key,
      fact_value |-> CustomerMemory[i].fact_value] :
        i \in {k \in 1..Len(CustomerMemory) : CustomerMemory[k].customer_id = c}}

\* C40: the context of a run holds only turns and memory facts of the
\* EndUser the run resolved (an EndUser of the resolved tenant with the
\* sender's address) and only knowledge of the resolved tenant, and as many
\* of them as that EndUser has, up to the limits: rows of another EndUser or
\* tenant neither enter the context nor displace anything in it.
C40_ContextIsolation ==
    \A w \in Workers :
        wpc[w] \in InExecution =>
            LET c   == svc[w].customer
                own == {i \in Ids(conversations) :
                          /\ i <= svc[w].h_seen
                          /\ conversations[i].customer_id = c}
            IN  /\ c # 0 => /\ customers[c].business_id = svc[w].business
                            /\ customers[c].phone_number = svc[w].user_phone
                /\ \A i \in SeqRange(svc[w].history) : i \in own
                /\ Len(svc[w].history) = Min(HistoryLimit, Cardinality(own))
                /\ SeqRange(svc[w].long_term_memory) \subseteq FactsOf(c)
                /\ Len(svc[w].long_term_memory)
                     = Min(MemoryLimit, Cardinality(FactsOf(c)))
                /\ SeqRange(svc[w].rag_knowledge)
                     \subseteq SeqRange(KnowledgeOf(svc[w].business))

\* A run for a new EndUser has an empty context while the store holds turns
\* and a memory fact of other EndUsers of the same tenant.
C40_Witness ==
    \E w \in Workers :
        /\ wpc[w] = "exec_send"
        /\ svc[w].customer = 3
        /\ svc[w].history = << >>
        /\ svc[w].long_term_memory = << >>
        /\ FactsOf(1) # {}
        /\ Turns(1) # {} /\ Turns(2) # {}
        /\ customers[1].business_id = svc[w].business

====
